---- MODULE Spec2Model ----
(***************************************************************************)
(* Model of the WebSocket gateway's connection plane                       *)
(* (Backend/Websocket-gateway): the sharded connection Manager, the Shard  *)
(* maps, the Client session with its read and write pumps, and the Redis   *)
(* bus adapter.                                                            *)
(*                                                                         *)
(* Goroutines are modelled as interleaved threads.  A step of a thread is  *)
(* one access to shared state (a shard operation under the shard lock, an  *)
(* atomic operation on the global counter, a client operation under the    *)
(* client mutex, a limiter call); purely local statements are merged into  *)
(* the shared access that follows them.                                    *)
(***************************************************************************)
EXTENDS Integers, Sequences, FiniteSets, Bags, TLC

(***************************************************************************)
(* The configuration (config.Config) the gateway runs with.                *)
(***************************************************************************)
cfg ==
    [ Sharding  |-> [ShardCount |-> 2],
      RateLimit |-> [GlobalConnections |-> 2, ConnectionsPerUser |-> 1, Burst |-> 2,
                      MessagesPerSecond |-> 1],
      Server    |-> [MaxConnsPerIP |-> 1, MaxMessageSize |-> 512 * 1024],
      Auth      |-> [RequireAuthOnConnect |-> TRUE, AuthTimeout |-> 5],
      Cluster   |-> [NodeID |-> "node-a"] ]

(***************************************************************************)
(* Bounds of the model.                                                    *)
(***************************************************************************)
\* length of a clock tick in pong waits
TickPongWaits == 3
\* number of WriteMessage calls made in one behaviour of SpecQueue
MaxWrites == 2
\* number of Shutdown calls on the server in one behaviour of SpecServerStop
MaxStops == 3

\* number of SubscribeToUser calls for one user on one node
MaxUserSubs == 2

\* number of envelopes the bus listener receives in one behaviour of SpecBus
MaxBusMsgs == 3
\* the frames a peer sends on one session
MaxFrames == 3
\* number of publications made in one behaviour of SpecCluster
MaxPubs == 2

\* server.pong_wait default, in seconds
PongWait == 60
\* seconds per clock tick
TickSeconds == TickPongWaits * PongWait
\* capacity of Client.Send
SendCap == 256
\* the read deadline ReadPump and its pong handler set, in seconds
ReadWait == 60

\* client ids (uuid strings in the program), as byte sequences:
\* "c1", "c9" and "c2"
ClientIDs == { <<99, 49>>, <<99, 57>>, <<99, 50>> }
\* the ids uuid.New may return at its first, second, ... call: the second
\* client lands in the shard of the first ("c9") or in another one ("c2")
MintOrder == << { <<99, 49>> }, { <<99, 57>>, <<99, 50>> } >>
\* the same, with a third call
AdmitOrder == << { <<99, 49>> }, { <<99, 57>>, <<99, 50>> }, { <<99, 57>>, <<99, 50>> } >>
Users == {"u1"}
Devices == {"d1", "d2"}
\* the device every session of Spec authenticates from
OneDevice == {"d1"}
IPs == {"ip1"}
\* the goroutines that call the Manager concurrently (http handlers among them)
Procs == {"p1", "p2"}
\* the one caller of the specifications without concurrent callers
Callers == {"p1"}
Payloads == {"a", "b"}
\* the gateway nodes on the bus; cfg.Cluster.NodeID is this node
Nodes == {"node-a", "node-b"}
\* message types carried on the bus (protocol.TypeMessage, TypeGroupMessage,
\* TypePresence, TypeTyping)
Types == {"message", "group_message", "presence", "typing"}
\* the zero value of a string field and of a *Client
NoUser == ""
NoDevice == ""
NoClient == <<>>
\* no envelope received yet
NoEnvelope == [parses |-> FALSE]

(***************************************************************************)
(* 32-bit arithmetic on naturals.                                          *)
(***************************************************************************)
RECURSIVE BitXor(_, _)
BitXor(a, b) ==
    IF a = 0 /\ b = 0 THEN 0
    ELSE (((a % 2) + (b % 2)) % 2) + 2 * BitXor(a \div 2, b \div 2)

RECURSIVE BitAnd(_, _)
BitAnd(a, b) ==
    IF a = 0 \/ b = 0 THEN 0
    ELSE ((a % 2) * (b % 2)) + 2 * BitAnd(a \div 2, b \div 2)

RECURSIVE BitOr(_, _)
BitOr(a, b) ==
    IF a = 0 /\ b = 0 THEN 0
    ELSE (IF a % 2 = 1 \/ b % 2 = 1 THEN 1 ELSE 0) + 2 * BitOr(a \div 2, b \div 2)

RECURSIVE Pow2(_)
Pow2(k) == IF k = 0 THEN 1 ELSE 2 * Pow2(k - 1)

Shr(n, k) == n \div Pow2(k)

\* nextPowerOfTwo on uint32, for 1 <= n <= 2^30
nextPowerOfTwo(n) ==
    LET n0 == n - 1
        n1 == BitOr(n0, Shr(n0, 1))
        n2 == BitOr(n1, Shr(n1, 2))
        n3 == BitOr(n2, Shr(n2, 4))
        n4 == BitOr(n3, Shr(n3, 8))
        n5 == BitOr(n4, Shr(n4, 16))
    IN  n5 + 1

\* NewManager: the shard count and mask
shardCount ==
    nextPowerOfTwo(IF cfg.Sharding.ShardCount = 0 THEN 64 ELSE cfg.Sharding.ShardCount)
shardMask == shardCount - 1
Shards == 0 .. (shardCount - 1)
maxConns == cfg.RateLimit.GlobalConnections

\* FNV-1a, 32 bit, on a hash kept as two 16-bit halves [hi, lo]:
\* offset basis 0x811C9DC5, prime 0x01000193
FnvStep(h, b) ==
    LET x  == BitXor(h.lo, b)
        pl == x * 403
    IN  [lo |-> pl % 65536,
         hi |-> ((h.hi * 403) + (x * 256) + (pl \div 65536)) % 65536]

RECURSIVE FnvFold(_, _)
FnvFold(h, key) ==
    IF key = <<>> THEN h ELSE FnvFold(FnvStep(h, Head(key)), Tail(key))

Fnv1a32(key) == FnvFold([hi |-> 33052, lo |-> 40389], key)

\* Manager.getShardID: h.Sum32() & m.shardMask (the mask fits the low half)
getShardID(key) == BitAnd(Fnv1a32(key).lo, shardMask)

\* the shard of every client id of the model (getShardID, evaluated once)
ShardOf == [id \in ClientIDs |-> getShardID(id)]

Min(a, b) == IF a < b THEN a ELSE b

(***************************************************************************)
(* NewManager on the whole range of uint32.  A uint32 is kept as two       *)
(* 16-bit halves [hi, lo]; a configured shard_count, a Go int, has the     *)
(* bits above the 32nd in top.                                             *)
(***************************************************************************)
Half == 65536

\* uint32(n) of the int n: the low 32 bits
ToUint32(n) == [hi |-> n.hi, lo |-> n.lo]

\* n-- on uint32
Dec32(h) ==
    IF h.lo = 0 THEN [hi |-> (h.hi + Half - 1) % Half, lo |-> Half - 1]
    ELSE [hi |-> h.hi, lo |-> h.lo - 1]

\* n++ on uint32
Inc32(h) ==
    IF h.lo = Half - 1 THEN [hi |-> (h.hi + 1) % Half, lo |-> 0]
    ELSE [hi |-> h.hi, lo |-> h.lo + 1]

\* n >> k on uint32, for k in {1, 2, 4, 8, 16}
Shr32(h, k) ==
    IF k = 16 THEN [hi |-> 0, lo |-> h.hi]
    ELSE [hi |-> h.hi \div Pow2(k),
          lo |-> (h.lo \div Pow2(k)) + (h.hi % Pow2(k)) * Pow2(16 - k)]

Or32(a, b) == [hi |-> BitOr(a.hi, b.hi), lo |-> BitOr(a.lo, b.lo)]

And32(a, b) == [hi |-> BitAnd(a.hi, b.hi), lo |-> BitAnd(a.lo, b.lo)]

\* nextPowerOfTwo on the whole of uint32
nextPowerOfTwo32(n) ==
    LET n0 == Dec32(n)
        n1 == Or32(n0, Shr32(n0, 1))
        n2 == Or32(n1, Shr32(n1, 2))
        n3 == Or32(n2, Shr32(n2, 4))
        n4 == Or32(n3, Shr32(n3, 8))
        n5 == Or32(n4, Shr32(n4, 16))
    IN  Inc32(n5)

\* no configuration has been loaded
NotLoaded ==
    [pc |-> "none", n |-> [top |-> 0, hi |-> 0, lo |-> 0],
     shardCount |-> [hi |-> 0, lo |-> 0], shardMask |-> [hi |-> 0, lo |-> 0],
     key |-> <<>>, shard |-> [hi |-> 0, lo |-> 0]]

(***************************************************************************)
(* State.                                                                  *)
(***************************************************************************)
VARIABLES
    clients,      \* Shard.clients: per shard, the ids in the primary map
    userClients,  \* Shard.userClients: per shard, user -> device -> client
    globalConns,  \* Manager.globalConns
    cl,           \* the Client objects, by id
    readPump,     \* per client, the position of its ReadPump goroutine
    writePump,    \* per client, the position of its WritePump goroutine
    call,         \* per calling goroutine, the Manager/Client call in progress
    sweep,        \* the cleanup goroutine
    userTokens,   \* Manager.userLimiter: tokens per user
    ipTokens,     \* Manager.ipLimiter: tokens per ip
    connects,     \* per client, number of onConnect invocations
    disconnects,  \* per client, the reasons of its onDisconnect invocations
    socket,       \* per client, the payloads written to the socket, in order
    writes,       \* number of WriteMessage calls made
    written,      \* the client and the result of the last WriteMessage call
    handlers,     \* RedisPubSub.handlers: the message types with a handler
    invoked,      \* the (node id, type) pairs a bus handler was invoked with
    received,     \* number of envelopes the bus listener has received
    lastEnv,      \* the last envelope received, and whether its type had a handler
    listener,     \* the bus listener: in its select or in a handler, that handler's context
    shutdown,     \* WebSocketServer.Shutdown: its position, m.ctx, the cleanup goroutine
    admitted,     \* per ip, the connections admitted since the last clock tick
                  \* (the steps between two ticks may all fall within one second)
    msgTokens,    \* Client.RateLimiter: tokens per client
    arrived,      \* per client, the frames read from the socket, with the limiter's answer
    handled,      \* per client, the frames passed to the message handler, in order
    node,         \* per node of the cluster, its bus adapter and what it published
    pubs,         \* number of publications made on the bus
    mgr,          \* the manager NewManager builds from a loaded shard_count, and its last lookup
    inbound,      \* server.max_message_size as loaded, and the last frame measured
    pub,          \* the Publish call in progress, or the last one's result
    send,         \* the SendToUser call in progress, or the last one's result
    mu,           \* per shard, Shard.mu: readers holding it, a writer waiting, a writer holding it
    stop,         \* RedisPubSub.Shutdown: its position, r.ctx, the subscription's channel
    srv,          \* WebSocketServer.Shutdown: shutdownOnce, shutdownChan, the calls and what ran
    lookup        \* the last GetClient or RemoveClient call a caller observed, and its result

vars == << clients, userClients, globalConns, cl, readPump, writePump, call,
           sweep, userTokens, ipTokens, connects, disconnects, socket,
           writes, written, handlers, invoked, received, lastEnv, listener,
           shutdown, admitted, inbound, mgr, msgTokens, arrived, handled, node, pubs, pub, send, lookup, mu, stop, srv >>

registryVars == << clients, userClients, globalConns >>
opVars == << send, lookup, mu, stop, srv >>
limiterVars == << userTokens, ipTokens >>
hookVars == << connects, disconnects >>
busVars == << handlers, invoked, received, lastEnv, listener >>
queueVars == << writes, written >>
serverVars == << shutdown, admitted, inbound, mgr >>
frameVars == << msgTokens, arrived, handled >>
clusterVars == << node, pubs, pub >>

\* NewClient: the fields of a fresh Client.  idle is now.Sub(c.LastActivity)
\* in clock ticks, counted up to IdleCap; LastActivity: time.Now() makes it 0.
\* deadline is the time, in clock ticks, since ReadPump or its pong handler
\* last called SetReadDeadline; readErr tells why ReadMessage failed
NewClient(id) ==
    [ made |-> TRUE, UserID |-> NoUser, DeviceID |-> NoDevice,
      authenticated |-> FALSE, closing |-> FALSE, cancelled |-> FALSE,
      sendClosed |-> FALSE, connClosed |-> FALSE,
      Send |-> <<>>, idle |-> 0, ShardID |-> ShardOf[id],
      deadline |-> 0, readErr |-> "", closes |-> 0 ]

\* a Client that has not been created yet
Unmade ==
    [ made |-> FALSE, UserID |-> NoUser, DeviceID |-> NoDevice,
      authenticated |-> FALSE, closing |-> FALSE, cancelled |-> FALSE,
      sendClosed |-> FALSE, connClosed |-> FALSE,
      Send |-> <<>>, idle |-> 0, ShardID |-> 0,
      deadline |-> 0, readErr |-> "", closes |-> 0 ]

\* a calling goroutine between two calls
Idle == [op |-> "idle"]

\* NewShard: empty maps
EmptyUserMap == [u \in Users |-> [d \in Devices |-> NoClient]]

\* NewUserRateLimiter(rate.Limit(ConnectionsPerUser), ConnectionsPerUser)
UserRate == cfg.RateLimit.ConnectionsPerUser
UserBurst == cfg.RateLimit.ConnectionsPerUser
\* NewIPRateLimiter(rate.Limit(ConnectionsPerUser), Burst)
IPRate == cfg.RateLimit.ConnectionsPerUser
IPBurst == cfg.RateLimit.Burst

\* NewLimiter(rate.Limit(MessagesPerSecond), Burst) in ServeHTTP and NewClient
MsgRate == cfg.RateLimit.MessagesPerSecond
MsgBurst == cfg.RateLimit.Burst

\* NewRedisPubSub and Subscribe: no handler, nothing received; sub and userSub
\* are the channels of the node's subscriptions, got the handler invocations
\* made, sent the publications made
NewRedisPubSub ==
    [ handlers |-> {}, sub |-> <<>>, userSub |-> [u \in Users |-> <<>>],
      got |-> <<>>, sent |-> <<>> ]

\* the listen goroutine as Start leaves it: in its select, no handler has failed
Listening == [pc |-> "listen", expired |-> FALSE, failed |-> FALSE]

\* a bus adapter nobody has shut down: r.ctx is live, the subscription open
Subscribed == [pc |-> "no", ctxDone |-> FALSE, closed |-> FALSE, chClosed |-> FALSE,
               late |-> 0]

\* a server Start has brought up and nobody has shut down: s.httpServer
\* assigned and in ListenAndServe, shutdownOnce unused, shutdownChan open
Serving == [once |-> "no", closes |-> 0, pc |-> "", log |-> << >>, n |-> 0,
            calls |-> [p \in Procs |-> "idle"],
            httpServer |-> "set", start |-> "serving", httpClosed |-> FALSE]

\* the server NewWebSocketServer returns: s.httpServer is nil until Start
Constructed == [Serving EXCEPT !.httpServer = "nil", !.start = "no"]

\* a sync.RWMutex nobody holds or waits for
Unlocked == [readers |-> 0, pending |-> FALSE, writer |-> FALSE]

\* no caller has looked at the result of a registry call
NoLookup == [op |-> "", id |-> NoClient, ret |-> NoClient, n |-> 0]

\* no SendToUser call has been made
NoSend ==
    [pc |-> "idle", user |-> NoUser, msg |-> "", shard |-> 0, todo |-> EmptyBag,
     sent |-> 0, got |-> EmptyBag, at |-> {}, calls |-> 0]

\* no Publish call has been made
NoPublish ==
    [pc |-> "idle", node |-> "", attempts |-> 0, msg |-> [Type |-> "", MessageID |-> 0],
     accepted |-> FALSE, ret |-> ""]

\* the server before Shutdown is called: m.ctx is live and the cleanup
\* goroutine runs
Running == [pc |-> "no", cancelled |-> FALSE, sweepDone |-> FALSE]

\* the values NewManager, NewClient and the test harness start from, with
\* the server as w
InitConfiguredAs(M, w) ==
    /\ inbound = [max |-> M, seq |-> 0, size |-> 0, id |-> NoClient]
    /\ mgr = NotLoaded
    /\ send = NoSend
    /\ lookup = NoLookup
    /\ mu = [s \in Shards |-> Unlocked]
    /\ stop = Subscribed
    /\ srv = w
    /\ shutdown = Running
    /\ admitted = [ip \in IPs |-> 0]
    /\ msgTokens = [c \in ClientIDs |-> MsgBurst]
    /\ arrived = [c \in ClientIDs |-> <<>>]
    /\ handled = [c \in ClientIDs |-> <<>>]
    /\ node = [n \in Nodes |-> NewRedisPubSub]
    /\ pubs = 0
    /\ pub = NoPublish

\* the same with the server started
InitConfigured(M) == InitConfiguredAs(M, Serving)

\* the cleanup goroutine waiting for its ticker
SweepIdle == [next |-> 0, cur |-> 0, pending |-> {}]

\* the state after NewManager and NewRedisPubSub, with the server as w
InitBaseAs(w) ==
    /\ clients = [s \in Shards |-> {}]
    /\ userClients = [s \in Shards |-> EmptyUserMap]
    /\ globalConns = 0
    /\ readPump = [c \in ClientIDs |-> "idle"]
    /\ writePump = [c \in ClientIDs |-> [pc |-> "idle", n |-> 0]]
    /\ call = [p \in Procs |-> Idle]
    /\ sweep = SweepIdle
    /\ userTokens = [u \in Users |-> UserBurst]
    /\ ipTokens = [ip \in IPs |-> IPBurst]
    /\ connects = [c \in ClientIDs |-> 0]
    /\ disconnects = [c \in ClientIDs |-> <<>>]
    /\ socket = [c \in ClientIDs |-> <<>>]
    /\ writes = 0
    /\ written = [id |-> NoClient, ret |-> ""]
    /\ handlers = {}
    /\ invoked = {}
    /\ received = 0
    /\ lastEnv = NoEnvelope
    /\ listener = Listening
    /\ InitConfiguredAs(cfg.Server.MaxMessageSize, w)
    /\ cl = [c \in ClientIDs |-> Unmade]

\* the gateway with its server started and no connection yet
Init == InitBaseAs(Serving)

\* the gateway main has constructed, before the goroutine of Start has run
InitStart == InitBaseAs(Constructed)

(***************************************************************************)
(* Shard operations (each runs under the shard's lock).                    *)
(***************************************************************************)
\* Shard.AddClient
ShardAddClient(c) ==
    clients' = [clients EXCEPT ![ShardOf[c]] = @ \cup {c}]

\* the user map of a shard after deleting the entries of the clients in rs:
\* delete(devices, client.DeviceID) for every client with UserID != ""
DeleteUserEntries(m, rs) ==
    [u \in Users |-> [d \in Devices |->
        IF \E c \in rs : cl[c].UserID # NoUser /\ cl[c].UserID = u /\ cl[c].DeviceID = d
        THEN NoClient ELSE m[u][d]]]

\* Shard.RemoveClient, when the client exists
ShardRemoveClient(c) ==
    /\ clients' = [clients EXCEPT ![ShardOf[c]] = @ \ {c}]
    /\ userClients' = [userClients EXCEPT ![ShardOf[c]] = DeleteUserEntries(@, {c})]

\* a removal that does not look at exists
ShardHasClientUnchecked(c) == TRUE

\* client, exists := s.clients[clientID] in Shard.RemoveClient
ShardHasClient(c) == c \in clients[ShardOf[c]]

\* a lookup that still returns a client the shard has let go
ShardGetClientKept(c) == IF cl[c].made THEN c ELSE NoClient

\* Shard.GetClient
ShardGetClient(c) == IF c \in clients[ShardOf[c]] THEN c ELSE NoClient

\* Shard.RegisterAuthenticatedClient with Client.SetAuthenticated
RegisterAuthenticatedClient(c, u, d) ==
    /\ cl' = [cl EXCEPT ![c].UserID = u, ![c].DeviceID = d,
                        ![c].authenticated = TRUE]
    /\ userClients' = [userClients EXCEPT ![ShardOf[c]][u][d] = c]

\* Shard.GetUserClients: the values of s.userClients[userID], a client once
\* for every device it is stored under (the slice as a bag)
ShardGetUserClients(s, u) ==
    LET held == { userClients[s][u][d] : d \in Devices } \ {NoClient}
    IN  [c \in held |-> Cardinality({ d \in Devices : userClients[s][u][d] = c })]

\* Manager.GetUserClients: the loop over the first n shards
RECURSIVE GetUserClientsUpTo(_, _)
GetUserClientsUpTo(u, n) ==
    IF n = 0 THEN EmptyBag
    ELSE GetUserClientsUpTo(u, n - 1) (+) ShardGetUserClients(n - 1, u)

\* Manager.GetUserClients
GetUserClients(u) == GetUserClientsUpTo(u, shardCount)

\* Shard.CleanupInactive: the ids of the shard whose inactivity exceeds timeout
Inactive(s, timeout) ==
    { c \in clients[s] : cl[c].idle * TickSeconds > timeout }

CleanupInactive(s, timeout) ==
    /\ clients' = [clients EXCEPT ![s] = @ \ Inactive(s, timeout)]
    /\ userClients' = [userClients EXCEPT ![s] = DeleteUserEntries(@, Inactive(s, timeout))]

(***************************************************************************)
(* Client operations (each runs under the client's mutex).                 *)
(***************************************************************************)
\* the fields Close and cleanup set when the client is not closing yet
Closed(r) ==
    [r EXCEPT !.closing = TRUE, !.cancelled = TRUE, !.sendClosed = TRUE,
              !.connClosed = TRUE, !.closes = @ + 1]

\* Client.Close(reason); the reason is only logged
ClientClose(c, reason) ==
    cl' = [cl EXCEPT ![c] = IF @.closing THEN @ ELSE Closed(@)]

\* a cleanup that does not look at closing
ClientCleanupUnguarded(c) ==
    cl' = [cl EXCEPT ![c] = Closed(@)]

\* Client.cleanup
ClientCleanup(c) ==
    cl' = [cl EXCEPT ![c] = IF ~ @.closing THEN Closed(@) ELSE @]

\* rate.Limiter.Allow on a bucket holding n tokens
Allow(n) == n >= 1

(***************************************************************************)
(* Manager.AddConnection, by a calling goroutine p.                        *)
(***************************************************************************)
\* ids already handed out by uuid.New, or reserved by a call in progress
Reserved == { c \in ClientIDs : cl[c].made \/ \E q \in Procs : call[q].op = "add" /\ call[q].id = c }

\* WebSocketServer.checkIPLimit
checkIPLimit(ip) == TRUE

\* ServeHTTP has answered the request of caller p without admitting it: the
\* connection is upgraded when checkIPLimit let it through, and then the
\* response written is the upgrade's 101 Switching Protocols
Rejected(ip, err) ==
    [op |-> "add", pc |-> "rejected", id |-> NoClient, err |-> err,
     upgraded |-> checkIPLimit(ip),
     status |-> IF checkIPLimit(ip) THEN 101 ELSE 429]

\* an AddConnection that counts the connection before it returns the error
CountOnErrorTaken(conns, err) == conns + 1

\* m.globalConns when AddConnection returns err: the two early returns come
\* before atomic.AddInt64(&m.globalConns, 1)
CountOnError(conns, err) == conns

\* ServeHTTP: checkIPLimit(ip) and s.upgrader.Upgrade; then AddConnection:
\* the load of globalConns against maxConns, then m.ipLimiter.Allow(ip);
\* id is the uuid the call will mint, order the ids uuid.New may return
AddConnectionCheck(p, id, ip, order) ==
    /\ call[p].op = "idle"
    /\ IF ~ checkIPLimit(ip)
       THEN /\ call' = [call EXCEPT ![p] = Rejected(ip, "ip")]
            /\ UNCHANGED << opVars, ipTokens, admitted, globalConns >>
       ELSE IF globalConns >= maxConns
       THEN /\ call' = [call EXCEPT ![p] = Rejected(ip, "global")]
            /\ globalConns' = CountOnError(globalConns, "global")
            /\ UNCHANGED << opVars, ipTokens, admitted >>
       ELSE IF ~ Allow(ipTokens[ip])
       THEN /\ call' = [call EXCEPT ![p] = Rejected(ip, "ip")]
            /\ globalConns' = CountOnError(globalConns, "ip")
            /\ UNCHANGED << opVars, ipTokens, admitted >>
       ELSE /\ Cardinality(Reserved) < Len(order)
            /\ id \in order[Cardinality(Reserved) + 1] \ Reserved
            /\ call' = [call EXCEPT ![p] = [op |-> "add", pc |-> "shard", id |-> id]]
            /\ ipTokens' = [ipTokens EXCEPT ![ip] = @ - 1]
            /\ admitted' = [admitted EXCEPT ![ip] = @ + 1]
            /\ UNCHANGED globalConns
    /\ UNCHANGED << opVars, clusterVars, clients, userClients, cl, readPump, writePump, sweep, userTokens,
                    hookVars, socket, queueVars, busVars, shutdown, inbound, mgr, frameVars >>

\* ServeHTTP after AddConnection returned an error: conn.Close() and return
AddConnectionReject(p) ==
    /\ call[p].op = "add" /\ call[p].pc = "rejected"
    /\ call' = [call EXCEPT ![p] = Idle]
    /\ UNCHANGED << opVars, clusterVars, registryVars, cl, readPump, writePump, sweep, limiterVars,
                    hookVars, socket, queueVars, busVars, serverVars, frameVars >>

\* NewClient and shard.AddClient(client)
AddConnectionShard(p) ==
    /\ call[p].op = "add" /\ call[p].pc = "shard"
    /\ cl' = [cl EXCEPT ![call[p].id] = NewClient(call[p].id)]
    /\ ShardAddClient(call[p].id)
    /\ call' = [call EXCEPT ![p].pc = "count"]
    /\ UNCHANGED << opVars, clusterVars, userClients, globalConns, readPump, writePump, sweep,
                    limiterVars, hookVars, socket, queueVars, busVars,
                    serverVars, frameVars >>

\* atomic.AddInt64(&m.globalConns, 1) and the start of the two pumps
AddConnectionCount(p) ==
    /\ call[p].op = "add" /\ call[p].pc = "count"
    /\ globalConns' = globalConns + 1
    /\ readPump' = [readPump EXCEPT ![call[p].id] = "run"]
    /\ writePump' = [writePump EXCEPT ![call[p].id].pc = "run"]
    /\ call' = [call EXCEPT ![p].pc = "hook"]
    /\ UNCHANGED << opVars, clusterVars, clients, userClients, cl, sweep, limiterVars,
                    hookVars, socket, queueVars, busVars,
                    serverVars, frameVars >>

\* m.onConnect(client) and the return
AddConnectionHook(p) ==
    /\ call[p].op = "add" /\ call[p].pc = "hook"
    /\ connects' = [connects EXCEPT ![call[p].id] = @ + 1]
    /\ call' = [call EXCEPT ![p] = Idle]
    /\ UNCHANGED << opVars, clusterVars, registryVars, cl, readPump, writePump, sweep, limiterVars,
                    disconnects, socket, queueVars, busVars,
                    serverVars, frameVars >>

AddConnection(p, order) ==
    \/ \E id \in ClientIDs, ip \in IPs : AddConnectionCheck(p, id, ip, order)
    \/ AddConnectionReject(p)
    \/ AddConnectionShard(p)
    \/ AddConnectionCount(p)
    \/ AddConnectionHook(p)

(***************************************************************************)
(* Manager.AuthenticateClient(clientID, userID, deviceID).                 *)
(***************************************************************************)
\* client := shard.GetClient(clientID), under the shard's read lock, which it
\* has released when it returns; "client not found" when it is nil
AuthenticateLookup(p, id, u, d) ==
    /\ call[p].op = "idle"
    /\ cl[id].made
    /\ call' = [call EXCEPT ![p] =
                  IF ShardGetClient(id) = NoClient
                  THEN Idle
                  ELSE [op |-> "auth", pc |-> "allow", id |-> id,
                        user |-> u, dev |-> d]]
    /\ UNCHANGED << opVars, clusterVars, registryVars, cl, readPump, writePump, sweep,
                    limiterVars, hookVars, socket, queueVars, busVars,
                    serverVars, frameVars >>

\* m.userLimiter.Allow(userID), with the tokens the bucket holds by then
AuthenticateAllow(p) ==
    /\ call[p].op = "auth" /\ call[p].pc = "allow"
    /\ IF Allow(userTokens[call[p].user])
       THEN /\ call' = [call EXCEPT ![p].pc = "register"]
            /\ userTokens' = [userTokens EXCEPT ![call[p].user] = @ - 1]
       ELSE /\ call' = [call EXCEPT ![p].pc = "rejected"]
            /\ userTokens' = userTokens
    /\ UNCHANGED << opVars, clusterVars, registryVars, cl, readPump, writePump, sweep, ipTokens,
                    hookVars, socket, queueVars, busVars,
                    serverVars, frameVars >>

\* shard.RegisterAuthenticatedClient(client, userID, deviceID)
AuthenticateRegister(p) ==
    /\ call[p].op = "auth" /\ call[p].pc = "register"
    /\ RegisterAuthenticatedClient(call[p].id, call[p].user, call[p].dev)
    /\ call' = [call EXCEPT ![p] = Idle]
    /\ UNCHANGED << opVars, clusterVars, clients, globalConns, readPump, writePump, sweep,
                    limiterVars, hookVars, socket, queueVars, busVars,
                    serverVars, frameVars >>

\* return fmt.Errorf("user connection limit exceeded")
AuthenticateReject(p) ==
    /\ call[p].op = "auth" /\ call[p].pc = "rejected"
    /\ call' = [call EXCEPT ![p] = Idle]
    /\ UNCHANGED << opVars, clusterVars, registryVars, cl, readPump, writePump, sweep,
                    limiterVars, hookVars, socket, queueVars, busVars,
                    serverVars, frameVars >>

\* the identities come from the users in U and the devices in D
AuthenticateClient(p, U, D) ==
    \/ \E id \in ClientIDs, u \in U, d \in D : AuthenticateLookup(p, id, u, d)
    \/ AuthenticateAllow(p)
    \/ AuthenticateRegister(p)
    \/ AuthenticateReject(p)

(***************************************************************************)
(* The disconnect hook the server registers, handleDisconnect of the       *)
(* WebSocketServer: it publishes the user's offline presence on the bus.    *)
(***************************************************************************)
nodeID == cfg.Cluster.NodeID

\* json.Marshal of a struct or a map: a JSON object
Marshal(m) == [kind |-> "object", val |-> m]

\* json.Marshal of a []byte held in an interface{}: a JSON string, the
\* base64 text of the bytes
MarshalBytes(b) == [kind |-> "string", val |-> b]

\* json.Unmarshal into a struct succeeds on a JSON object
UnmarshalsToStruct(j) == j.kind = "object"

\* RedisPubSub.Publish: the payload node n publishes for message m
Envelope(n, m) ==
    Marshal([node_id |-> n, message |-> MarshalBytes(Marshal(m))])

\* RedisPubSub.Publish(ctx, msg) on node n: every node subscribes to
\* r.channel at startup, and the bus hands each the payload
Published(n, m) ==
    [b \in Nodes |->
        [node[b] EXCEPT
            !.sub = Append(@, Envelope(n, m)),
            !.sent = IF b = n
                     THEN Append(@, [msg |-> m, channel |-> "broadcast",
                                     to |-> { x \in Nodes : m.Type \in node[x].handlers }])
                     ELSE @]]

\* m.onDisconnect(client, reason): handleDisconnect, and for a client with a
\* UserID publishPresence(client.UserID, "offline", client.DeviceID), which
\* publishes, or logs the error s.pubSub.Publish returned and publishes nothing
HandleDisconnect(c, reason) ==
    /\ disconnects' = [disconnects EXCEPT ![c] = Append(@, reason)]
    /\ \/ /\ cl[c].UserID # NoUser
          /\ pubs' = pubs + 1
          /\ node' = Published(nodeID, [Type |-> "presence", MessageID |-> pubs + 1])
       \/ UNCHANGED << node, pubs >>
    /\ UNCHANGED pub

(***************************************************************************)
(* Manager.RemoveClient(clientID, reason), by a calling goroutine.         *)
(***************************************************************************)
Reasons == {"kicked"}

\* shard.RemoveClient(clientID)
RemoveClientFind(p, id, reason) ==
    /\ call[p].op = "idle"
    /\ IF ShardHasClient(id)
       THEN /\ ShardRemoveClient(id)
            /\ call' = [call EXCEPT ![p] =
                          [op |-> "remove", pc |-> "count", id |-> id, reason |-> reason]]
       ELSE /\ UNCHANGED << clients, userClients >>
            /\ call' = [call EXCEPT ![p] = Idle]
    /\ UNCHANGED << srv, stop, send, mu, clusterVars, globalConns, cl, readPump, writePump, sweep, limiterVars,
                    hookVars, socket, queueVars, busVars,
                    serverVars, frameVars >>

\* Manager.RemoveClient(id, reason) on a client that was created
RemoveClientShard(p, id, reason) ==
    /\ cl[id].made
    /\ RemoveClientFind(p, id, reason)
    /\ UNCHANGED lookup

\* atomic.AddInt64(&m.globalConns, -1)
RemoveClientCount(p) ==
    /\ call[p].op = "remove" /\ call[p].pc = "count"
    /\ globalConns' = globalConns - 1
    /\ call' = [call EXCEPT ![p].pc = "close"]
    /\ UNCHANGED << opVars, clusterVars, clients, userClients, cl, readPump, writePump, sweep,
                    limiterVars, hookVars, socket, queueVars, busVars,
                    serverVars, frameVars >>

\* client.Close(reason)
RemoveClientClose(p) ==
    /\ call[p].op = "remove" /\ call[p].pc = "close"
    /\ ClientClose(call[p].id, call[p].reason)
    /\ call' = [call EXCEPT ![p].pc = "hook"]
    /\ UNCHANGED << opVars, clusterVars, registryVars, readPump, writePump, sweep, limiterVars,
                    hookVars, socket, queueVars, busVars,
                    serverVars, frameVars >>

\* m.onDisconnect(client, reason), and RemoveClient returns
RemoveClientHook(p) ==
    /\ call[p].op = "remove" /\ call[p].pc = "hook"
    /\ HandleDisconnect(call[p].id, call[p].reason)
    /\ call' = [call EXCEPT ![p] = Idle]
    /\ UNCHANGED << opVars, registryVars, cl, readPump, writePump, sweep, limiterVars,
                    connects, socket, queueVars, busVars,
                    serverVars, frameVars >>

RemoveClient(p) ==
    \/ \E id \in ClientIDs, reason \in Reasons : RemoveClientShard(p, id, reason)
    \/ RemoveClientCount(p)
    \/ RemoveClientClose(p)
    \/ RemoveClientHook(p)

\* Client.Close(reason) called on the client directly
Close(p, c, reason) ==
    /\ call[p].op = "idle"
    /\ cl[c].made
    /\ ClientClose(c, reason)
    /\ call' = [call EXCEPT ![p] = Idle]
    /\ UNCHANGED << opVars, clusterVars, registryVars, readPump, writePump, sweep, limiterVars,
                    hookVars, socket, queueVars, busVars,
                    serverVars, frameVars >>

(***************************************************************************)
(* Client.WriteMessage(message).  The whole body runs under the client's   *)
(* read lock, which excludes Close and cleanup.                            *)
(***************************************************************************)
ErrClientClosed == "client connection closed"
ErrClientSlow == "client send channel full"

\* a send that also succeeds on a channel holding SendCap messages
WriteResultPastCap(r) ==
    IF r.closing THEN ErrClientClosed
    ELSE IF Len(r.Send) <= SendCap THEN "ok"
    ELSE ErrClientSlow

\* a send that does not look at closing
WriteResultIgnoringClosing(r) ==
    IF Len(r.Send) < SendCap THEN "ok"
    ELSE ErrClientSlow

\* the result of WriteMessage on client record r
WriteResult(r) ==
    IF r.closing THEN ErrClientClosed
    ELSE IF Len(r.Send) < SendCap THEN "ok"
    ELSE ErrClientSlow

\* a send that makes room on a full channel by dropping its oldest message
WriteSendEvictOldest(r, m) ==
    IF WriteResult(r) = "ok" THEN Append(r.Send, m)
    ELSE IF r.closing THEN r.Send
    ELSE Append(Tail(r.Send), m)

\* the send channel after WriteMessage(m) on client record r
WriteSend(r, m) ==
    IF WriteResult(r) = "ok" THEN Append(r.Send, m) ELSE r.Send

WriteMessage(p, c, m) ==
    /\ call[p].op = "idle"
    /\ cl[c].made
    /\ writes < MaxWrites
    /\ writes' = writes + 1
    /\ cl' = [cl EXCEPT ![c].Send = WriteSend(cl[c], m)]
    /\ written' = [id |-> c, ret |-> WriteResult(cl[c])]
    /\ UNCHANGED << opVars, clusterVars, registryVars, readPump, writePump, call, sweep,
                    limiterVars, hookVars, socket, busVars,
                    serverVars, frameVars >>

(***************************************************************************)
(* Client.ReadPump.                                                        *)
(***************************************************************************)
\* the payload of protocol.NewErrorMessage("RATE_LIMIT_EXCEEDED", ...)
RateLimitFrame == "RATE_LIMIT_EXCEEDED"

\* c.RateLimiter.Allow() of the rate.Limiter ServeHTTP builds per connection:
\* a token is there to take
RateLimiterAllow(tokens) == tokens >= 1

\* a read pump that passes every frame to the handler
FrameVerdictUnlimited(tokens) == "handle"

\* where the loop goes with a frame: to messageHandler, or to the error reply
FrameVerdict(tokens) ==
    IF RateLimiterAllow(tokens) THEN "handle" ELSE "refuse"

\* c.Conn.ReadMessage() returned the frame m: c.LastActivity = time.Now(),
\* then c.RateLimiter.Allow()
FrameRead(c, m) ==
    /\ readPump[c] = "run"
    /\ ~ cl[c].cancelled /\ ~ cl[c].connClosed
    /\ Len(arrived[c]) < MaxFrames
    /\ cl' = [cl EXCEPT ![c].idle = 0]
    /\ arrived' = [arrived EXCEPT ![c] =
                     Append(@, [msg |-> m, allowed |-> RateLimiterAllow(msgTokens[c])])]
    /\ msgTokens' = [msgTokens EXCEPT ![c] =
                       IF RateLimiterAllow(@) THEN @ - 1 ELSE @]
    /\ readPump' = [readPump EXCEPT ![c] = FrameVerdict(msgTokens[c])]
    /\ UNCHANGED << opVars, clusterVars, registryVars, writePump, call, sweep,
                    limiterVars, hookVars, socket, writes, written, busVars,
                    shutdown, admitted, mgr, handled >>

\* one frame m read from the socket, of a size the read limit lets through
ReadPumpFrame(c, m) == FrameRead(c, m) /\ UNCHANGED inbound

\* the refused frame: c.WriteMessage(msgBytes) with the error message, its
\* result dropped, and continue
ReadPumpRefuse(c) ==
    /\ readPump[c] = "refuse"
    /\ cl' = [cl EXCEPT ![c].Send = WriteSend(cl[c], RateLimitFrame)]
    /\ readPump' = [readPump EXCEPT ![c] = "run"]
    /\ UNCHANGED << opVars, clusterVars, registryVars, writePump, call, sweep,
                    limiterVars, hookVars, socket, writes, written, busVars,
                    serverVars, frameVars >>

\* the allowed frame: messageHandler(c, message)
ReadPumpHandle(c) ==
    /\ readPump[c] = "handle"
    /\ handled' = [handled EXCEPT ![c] = Append(@, arrived[c][Len(arrived[c])].msg)]
    /\ readPump' = [readPump EXCEPT ![c] = "run"]
    /\ UNCHANGED << opVars, clusterVars, registryVars, cl, writePump, call, sweep,
                    limiterVars, hookVars, socket, queueVars, busVars,
                    serverVars, msgTokens, arrived >>

\* the loop body of the read pump
ReadPumpLoop(c) ==
    \/ \E m \in Payloads : ReadPumpFrame(c, m)
    \/ ReadPumpRefuse(c)
    \/ ReadPumpHandle(c)

\* the loop ends (ctx.Done or a read error); the deferred closeHandler runs
\* Manager.handleDisconnect -> RemoveClient: shard.RemoveClient(client.ID)
ReadPumpEnd(c) ==
    /\ readPump[c] = "run"
    /\ IF ShardHasClient(c)
       THEN /\ ShardRemoveClient(c)
            /\ readPump' = [readPump EXCEPT ![c] = "count"]
       ELSE /\ UNCHANGED << clients, userClients >>
            /\ readPump' = [readPump EXCEPT ![c] = "cleanup"]
    /\ UNCHANGED << opVars, clusterVars, globalConns, cl, writePump, call, sweep, limiterVars,
                    hookVars, socket, queueVars, busVars,
                    serverVars, frameVars >>

\* the read deadline of client record r has passed
Expired(r) == r.deadline * TickSeconds >= ReadWait

\* c.Conn.ReadMessage() returns err: the loop ends and the deferred
\* closeHandler runs, as in ReadPumpEnd
ReadFailed(c, err) ==
    /\ readPump[c] = "run"
    /\ ~ cl[c].cancelled /\ ~ cl[c].connClosed
    /\ cl' = [cl EXCEPT ![c].readErr = err]
    /\ IF ShardHasClient(c)
       THEN /\ ShardRemoveClient(c)
            /\ readPump' = [readPump EXCEPT ![c] = "count"]
       ELSE /\ UNCHANGED << clients, userClients >>
            /\ readPump' = [readPump EXCEPT ![c] = "cleanup"]
    /\ UNCHANGED << opVars, clusterVars, globalConns, writePump, call, sweep, limiterVars,
                    hookVars, socket, queueVars, busVars,
                    shutdown, admitted, mgr, frameVars >>

\* c.Conn.ReadMessage() fails because the read deadline passed without a pong
ReadPumpTimeout(c) ==
    /\ Expired(cl[c])
    /\ ReadFailed(c, "i/o timeout")
    /\ UNCHANGED inbound

\* c.Conn.SetReadLimit(1024 * 1024): the largest message ReadMessage returns
ReadLimit == 1048576

\* ReadMessage on a frame of n bytes: the frame, or the error of a message
\* over the read limit (the connection answers with a close frame)
ReadMessage(n) == IF n > ReadLimit THEN "read limit exceeded" ELSE "nil"

\* a frame of n bytes with payload m comes in on the socket of c
ReadPumpSized(c, n, m) ==
    /\ inbound.seq < MaxFrames
    /\ inbound' = [inbound EXCEPT !.seq = @ + 1, !.size = n, !.id = c]
    /\ IF ReadMessage(n) = "nil"
       THEN FrameRead(c, m)
       ELSE ReadFailed(c, ReadMessage(n))

\* RemoveClient: atomic.AddInt64(&m.globalConns, -1)
ReadPumpCount(c) ==
    /\ readPump[c] = "count"
    /\ globalConns' = globalConns - 1
    /\ readPump' = [readPump EXCEPT ![c] = "close"]
    /\ UNCHANGED << opVars, clusterVars, clients, userClients, cl, writePump, call, sweep,
                    limiterVars, hookVars, socket, queueVars, busVars,
                    serverVars, frameVars >>

\* RemoveClient: client.Close("client_disconnected")
ReadPumpClose(c) ==
    /\ readPump[c] = "close"
    /\ ClientClose(c, "client_disconnected")
    /\ readPump' = [readPump EXCEPT ![c] = "hook"]
    /\ UNCHANGED << opVars, clusterVars, registryVars, writePump, call, sweep, limiterVars,
                    hookVars, socket, queueVars, busVars,
                    serverVars, frameVars >>

\* RemoveClient: m.onDisconnect(client, "client_disconnected")
ReadPumpHook(c) ==
    /\ readPump[c] = "hook"
    /\ HandleDisconnect(c, "client_disconnected")
    /\ readPump' = [readPump EXCEPT ![c] = "cleanup"]
    /\ UNCHANGED << opVars, registryVars, cl, writePump, call, sweep, limiterVars,
                    connects, socket, queueVars, busVars,
                    serverVars, frameVars >>

\* the deferred c.cleanup()
ReadPumpCleanup(c) ==
    /\ readPump[c] = "cleanup"
    /\ ClientCleanup(c)
    /\ readPump' = [readPump EXCEPT ![c] = "done"]
    /\ UNCHANGED << opVars, clusterVars, registryVars, writePump, call, sweep, limiterVars,
                    hookVars, socket, queueVars, busVars,
                    serverVars, frameVars >>

\* the end of the read pump: closeHandler(c), then c.cleanup()
ReadPumpTeardown(c) ==
    \/ ReadPumpEnd(c)
    \/ ReadPumpCount(c)
    \/ ReadPumpClose(c)
    \/ ReadPumpHook(c)
    \/ ReadPumpCleanup(c)

ReadPump(c) ==
    \/ ReadPumpLoop(c)
    \/ ReadPumpTeardown(c)

(***************************************************************************)
(* Client.WritePump.                                                       *)
(***************************************************************************)
\* the select returns (ctx.Done, the closed and empty channel, or a failed
\* ping write) and the deferred c.cleanup() runs
WritePumpEnd(c) ==
    /\ writePump[c].pc = "run"
    /\ ClientCleanup(c)
    /\ writePump' = [writePump EXCEPT ![c] = [pc |-> "done", n |-> 0]]
    /\ UNCHANGED << opVars, clusterVars, registryVars, readPump, call, sweep, limiterVars,
                    hookVars, socket, queueVars, busVars,
                    serverVars, frameVars >>

\* case message, ok := <-c.Send with ok: NextWriter and w.Write(message)
WritePumpRecv(c) ==
    /\ writePump[c].pc = "run"
    /\ cl[c].Send # <<>>
    /\ cl' = [cl EXCEPT ![c].Send = Tail(@)]
    /\ writePump' = [writePump EXCEPT ![c] =
                       [pc |-> "len", n |-> 0, frame |-> << Head(cl[c].Send) >>]]
    /\ UNCHANGED << opVars, clusterVars, registryVars, readPump, call, sweep, limiterVars,
                    hookVars, socket, queueVars, busVars,
                    serverVars, frameVars >>

\* n := len(c.Send)
WritePumpLen(c) ==
    /\ writePump[c].pc = "len"
    /\ writePump' = [writePump EXCEPT ![c].pc = "drain", ![c].n = Len(cl[c].Send)]
    /\ UNCHANGED << opVars, clusterVars, registryVars, cl, readPump, call, sweep, limiterVars,
                    hookVars, socket, queueVars, busVars,
                    serverVars, frameVars >>

\* a drain that writes the newer message ahead of the frame
CoalesceAhead(frame, m) == << m >> \o frame

\* w.Write([]byte{'\n'}); w.Write(m): the payloads of the frame, in order
Coalesce(frame, m) == Append(frame, m)

\* one round of the drain loop: w.Write(<-c.Send)
WritePumpDrain(c) ==
    /\ writePump[c].pc = "drain"
    /\ writePump[c].n > 0
    /\ cl[c].Send # <<>>
    /\ cl' = [cl EXCEPT ![c].Send = Tail(@)]
    /\ writePump' = [writePump EXCEPT ![c].n = @ - 1,
                                      ![c].frame = Coalesce(@, Head(cl[c].Send))]
    /\ UNCHANGED << opVars, clusterVars, registryVars, readPump, call, sweep, limiterVars,
                    hookVars, socket, queueVars, busVars,
                    serverVars, frameVars >>

\* w.Close() succeeds: the frame is on the socket
WritePumpFlush(c) ==
    /\ writePump[c].pc = "drain"
    /\ writePump[c].n = 0
    /\ ~ cl[c].connClosed
    /\ socket' = [socket EXCEPT ![c] = @ \o writePump[c].frame]
    /\ writePump' = [writePump EXCEPT ![c] = [pc |-> "run", n |-> 0]]
    /\ UNCHANGED << opVars, clusterVars, registryVars, cl, readPump, call, sweep, limiterVars,
                    hookVars, queueVars, busVars,
                    serverVars, frameVars >>

\* NextWriter or w.Close() fails: return, and the deferred c.cleanup() runs
WritePumpFail(c) ==
    /\ \/ writePump[c].pc = "len"
       \/ writePump[c].pc = "drain" /\ writePump[c].n = 0
    /\ ClientCleanup(c)
    /\ writePump' = [writePump EXCEPT ![c] = [pc |-> "done", n |-> 0]]
    /\ UNCHANGED << opVars, clusterVars, registryVars, readPump, call, sweep, limiterVars,
                    hookVars, socket, queueVars, busVars,
                    serverVars, frameVars >>

WritePump(c) ==
    \/ WritePumpEnd(c)
    \/ WritePumpRecv(c)
    \/ WritePumpLen(c)
    \/ WritePumpDrain(c)
    \/ WritePumpFlush(c)
    \/ WritePumpFail(c)

(***************************************************************************)
(* The cleanup goroutine: startCleanupRoutine, cleanupInactiveConnections. *)
(***************************************************************************)
\* timeout := m.config.Server.PongWait * 2
CleanupTimeout == PongWait * 2

\* removed := shard.CleanupInactive(timeout) for the next shard of the loop;
\* at shard 0 the ticker has fired and a sweep starts
SweepShard ==
    /\ ~ shutdown.sweepDone
    /\ sweep.pending = {}
    /\ CleanupInactive(sweep.next, CleanupTimeout)
    /\ sweep' = [next |-> (sweep.next + 1) % shardCount, cur |-> sweep.next,
                 pending |-> Inactive(sweep.next, CleanupTimeout)]
    /\ UNCHANGED << opVars, clusterVars, globalConns, cl, readPump, writePump, call, limiterVars,
                    hookVars, socket, queueVars, busVars,
                    serverVars, frameVars >>

\* one round of the loop over removed: the counter, and onDisconnect when
\* shard.GetClient(clientID) still finds the client
SweepCount(id) ==
    /\ id \in sweep.pending
    /\ globalConns' = globalConns - 1
    /\ IF ShardGetClient(id) # NoClient
       THEN HandleDisconnect(id, "inactive_timeout")
       ELSE UNCHANGED << disconnects, clusterVars >>
    /\ sweep' = [sweep EXCEPT !.pending = @ \ {id}]
    /\ UNCHANGED << opVars, clients, userClients, cl, readPump, writePump, call,
                    limiterVars, connects, socket, queueVars, busVars,
                    serverVars, frameVars >>

Sweep ==
    \/ SweepShard
    \/ \E id \in ClientIDs : SweepCount(id)

\* startCleanupRoutine: case <-m.ctx.Done(): return, between two sweeps
SweepExit ==
    /\ shutdown.cancelled /\ ~ shutdown.sweepDone
    /\ sweep.pending = {} /\ sweep.next = 0
    /\ shutdown' = [shutdown EXCEPT !.sweepDone = TRUE]
    /\ UNCHANGED << opVars, clusterVars, registryVars, cl, readPump, writePump, call, sweep,
                    limiterVars, hookVars, socket, queueVars, busVars,
                    admitted, inbound, mgr, frameVars >>

(***************************************************************************)
(* WebSocketServer.Shutdown: shutdownOnce and the five steps of the        *)
(* function it guards, with the waits of Manager.Shutdown and of the bus   *)
(* adapter's Shutdown.                                                     *)
(***************************************************************************)
\* the counter of m.wg is zero: the cleanup goroutine and the two pumps of
\* every connection (wg.Add(2) in AddConnection) have returned
WaitGroupZero ==
    /\ shutdown.sweepDone
    /\ \A c \in ClientIDs :
          readPump[c] \in {"idle", "done"} /\ writePump[c].pc \in {"idle", "done"}

\* the five calls of the guarded function, in the order of the source
ShutdownSequence == << "http", "manager", "router", "bus", "metrics" >>

\* sync.Once.Do(f) runs f for the first call only
OnceRuns(once) == once = "no"

\* the steps of the server's Shutdown leave the sessions and the bus traffic alone
ServerFrame ==
    UNCHANGED << send, lookup, mu, clusterVars, registryVars, cl, readPump, writePump,
                 call, sweep, limiterVars, hookVars, socket, queueVars, busVars,
                 admitted, inbound, mgr, frameVars >>

\* Shutdown() is called by p: shutdownOnce.Do runs the function, which begins
\* with close(s.shutdownChan), or waits for the call that runs it, or
\* returns at once
ServerShutdown(p) ==
    /\ srv.calls[p] \in {"idle", "returned"}
    /\ srv.n < MaxStops
    /\ srv' = IF OnceRuns(srv.once)
              THEN [srv EXCEPT !.once = "running", !.closes = @ + 1, !.pc = "http",
                               !.n = @ + 1, !.calls[p] = "runs"]
              ELSE IF srv.once = "running"
              THEN [srv EXCEPT !.n = @ + 1, !.calls[p] = "waits"]
              ELSE [srv EXCEPT !.n = @ + 1, !.calls[p] = "returned"]
    /\ UNCHANGED << stop, shutdown >>
    /\ ServerFrame

\* Start(), first part: s.httpServer = &http.Server{...}
ServerStartAssign ==
    /\ srv.start = "no"
    /\ srv' = [srv EXCEPT !.httpServer = "set", !.start = "assigned"]
    /\ UNCHANGED << stop, shutdown >>
    /\ ServerFrame

\* Start(), second part: s.httpServer.ListenAndServe(), which opens the
\* listener and serves, or fails to listen, or returns ErrServerClosed at
\* once when the http.Server has been shut down already
ServerStartListen ==
    /\ srv.start = "assigned"
    /\ \E r \in IF srv.httpClosed THEN {"returned"} ELSE {"serving", "failed"} :
          srv' = [srv EXCEPT !.start = r]
    /\ UNCHANGED << stop, shutdown >>
    /\ ServerFrame

\* if s.httpServer != nil: s.httpServer.Shutdown(ctx), which closes the
\* listener (ListenAndServe returns ErrServerClosed) and returns at the
\* latest when ctx expires; it does not wait for, or close, the hijacked
\* WebSocket connections.  With s.httpServer nil the step is passed over
ServerShutdownHTTP ==
    /\ srv.pc = "http"
    /\ srv' = IF srv.httpServer # "nil"
              THEN [srv EXCEPT !.pc = "manager", !.log = Append(@, "http"),
                               !.httpClosed = TRUE,
                               !.start = IF @ = "serving" THEN "returned" ELSE @]
              ELSE [srv EXCEPT !.pc = "manager"]
    /\ shutdown' = [shutdown EXCEPT !.pc = "manager"]
    /\ UNCHANGED stop
    /\ ServerFrame

\* s.connManager.Shutdown(): m.cancel(), then m.wg.Wait()
ServerShutdownManager ==
    /\ srv.pc = "manager"
    /\ srv' = [srv EXCEPT !.pc = "wait", !.log = Append(@, "manager")]
    /\ shutdown' = [shutdown EXCEPT !.pc = "wait", !.cancelled = TRUE]
    /\ UNCHANGED stop
    /\ ServerFrame

\* m.wg.Wait() returns, then s.messageRouter.Shutdown()
ServerShutdownRouter ==
    /\ srv.pc = "wait"
    /\ WaitGroupZero
    /\ srv' = [srv EXCEPT !.pc = "bus", !.log = Append(@, "router")]
    /\ UNCHANGED << stop, shutdown >>
    /\ ServerFrame

\* s.pubSub.Shutdown(): r.cancel(), r.subscriber.Close(), then r.wg.Wait()
ServerShutdownBus ==
    /\ srv.pc = "bus"
    /\ srv' = [srv EXCEPT !.pc = "buswait", !.log = Append(@, "bus")]
    /\ stop' = [stop EXCEPT !.pc = "wait", !.ctxDone = TRUE, !.closed = TRUE]
    /\ UNCHANGED shutdown
    /\ ServerFrame

\* r.wg.Wait() returns, then s.metrics.Shutdown(); the guarded function and
\* the Do that ran it return
ServerShutdownMetrics ==
    /\ srv.pc = "buswait"
    /\ listener.pc = "returned"
    /\ srv' = [srv EXCEPT !.pc = "", !.log = Append(@, "metrics"), !.once = "done",
                          !.calls = [p \in Procs |-> IF @[p] = "runs" THEN "returned"
                                                     ELSE @[p]]]
    /\ stop' = [stop EXCEPT !.pc = "done"]
    /\ shutdown' = [shutdown EXCEPT !.pc = "done"]
    /\ ServerFrame

\* shutdownOnce.Do returns in a call that waited for the one that ran
ServerShutdownWaited(p) ==
    /\ srv.calls[p] = "waits"
    /\ srv.once = "done"
    /\ srv' = [srv EXCEPT !.calls[p] = "returned"]
    /\ UNCHANGED << stop, shutdown >>
    /\ ServerFrame

(***************************************************************************)
(* Time.  One tick is TickSeconds seconds; the token buckets refill at    *)
(* their rate (tokens per second) up to their burst.                       *)
(***************************************************************************)
Refill(n, rate, burst) == Min(burst, n + rate * TickSeconds)

\* the smallest number of ticks that exceeds the sweep's timeout
IdleCap == (CleanupTimeout \div TickSeconds) + 1

\* the pong handler of ReadPump: SetReadDeadline(now + 60 s)
PongHandler(r) == [r EXCEPT !.deadline = 0]

\* ReadPump of c is in c.Conn.ReadMessage(), where pongs are handled
Reading(c) == readPump[c] = "run" /\ ~ cl[c].connClosed

\* ReadPump of c is in its loop: the read deadline it set is running, in
\* ReadMessage or in the handling of a frame
InLoop(c) == readPump[c] \in {"run", "handle", "refuse"} /\ ~ cl[c].connClosed

\* one tick passes; the peers of the sessions in P answer the pings they get,
\* and a pong is handled only by a read pump that is in ReadMessage
Elapse(P) ==
    /\ cl' = [c \in ClientIDs |->
                IF ~ cl[c].made THEN cl[c]
                ELSE LET r == [cl[c] EXCEPT !.idle = Min(IdleCap, @ + 1)]
                     IN  IF ~ InLoop(c) THEN r
                         ELSE IF Reading(c) /\ c \in P THEN PongHandler(r)
                         ELSE [r EXCEPT !.deadline = Min(IdleCap, @ + 1)]]
    /\ userTokens' = [u \in Users |-> Refill(userTokens[u], UserRate, UserBurst)]
    /\ ipTokens' = [ip \in IPs |-> Refill(ipTokens[ip], IPRate, IPBurst)]
    /\ msgTokens' = [c \in ClientIDs |-> Refill(msgTokens[c], MsgRate, MsgBurst)]
    /\ admitted' = [ip \in IPs |-> 0]
    /\ UNCHANGED << opVars, clusterVars, registryVars, readPump, writePump, call, sweep,
                    hookVars, socket, queueVars, busVars, shutdown, inbound, mgr,
                    arrived, handled >>

\* one tick passes and every peer answers its pings
Tick == Elapse(ClientIDs)

(***************************************************************************)
(* The registry specification: connections are added, authenticated,       *)
(* removed, closed and swept; no application frame is read or enqueued.    *)
(***************************************************************************)
Next ==
    \/ \E p \in Callers : AddConnection(p, MintOrder)
    \/ \E p \in Callers : AuthenticateClient(p, Users, OneDevice)
    \/ \E p \in Callers : RemoveClient(p)
    \/ \E p \in Callers, c \in ClientIDs, reason \in Reasons : Close(p, c, reason)
    \/ \E c \in ClientIDs : ReadPumpTeardown(c)
    \/ \E c \in ClientIDs : WritePumpEnd(c)
    \/ Sweep
    \/ Tick

Spec == Init /\ [][Next]_vars

(***************************************************************************)
(* The session specification: one established session, its pumps, and     *)
(* callers that enqueue messages, remove and close it.  It starts after    *)
(* AddConnection has returned, with the send channel empty or one short of *)
(* full (a state WriteMessage calls reach while the write pump is not      *)
(* scheduled).                                                             *)
(***************************************************************************)
\* the session of SpecQueue: "c1"
QueueClient == <<99, 49>>

Prefill(k) == [i \in 1 .. k |-> "a"]

\* the state in which AddConnection has returned for the clients in S and the
\* limiters have refilled since, with k messages in the send channel of
\* QueueClient
EstablishedUnder(S, k, M) ==
    /\ cl = [c \in ClientIDs |->
               IF c \in S
               THEN [NewClient(c) EXCEPT !.Send = IF c = QueueClient THEN Prefill(k) ELSE <<>>]
               ELSE Unmade]
    /\ clients = [s \in Shards |-> { c \in S : ShardOf[c] = s }]
    /\ userClients = [s \in Shards |-> EmptyUserMap]
    /\ globalConns = Cardinality(S)
    /\ readPump = [c \in ClientIDs |-> IF c \in S THEN "run" ELSE "idle"]
    /\ writePump = [c \in ClientIDs |->
                      [pc |-> IF c \in S THEN "run" ELSE "idle", n |-> 0]]
    /\ call = [p \in Procs |-> Idle]
    /\ sweep = SweepIdle
    /\ userTokens = [u \in Users |-> UserBurst]
    /\ ipTokens = [ip \in IPs |-> IPBurst]
    /\ connects = [c \in ClientIDs |-> IF c \in S THEN 1 ELSE 0]
    /\ disconnects = [c \in ClientIDs |-> <<>>]
    /\ socket = [c \in ClientIDs |-> <<>>]
    /\ writes = 0
    /\ written = [id |-> NoClient, ret |-> ""]
    /\ handlers = {}
    /\ invoked = {}
    /\ received = 0
    /\ lastEnv = NoEnvelope
    /\ listener = Listening
    /\ InitConfigured(M)

\* the same under the default configuration
Established(S, k) == EstablishedUnder(S, k, cfg.Server.MaxMessageSize)

InitQueue == \E k \in {0, SendCap - 1} : Established({QueueClient}, k)

NextQueue ==
    \/ \E p \in Callers, c \in ClientIDs, m \in Payloads : WriteMessage(p, c, m)
    \/ \E c \in ClientIDs : WritePump(c)
    \/ \E c \in ClientIDs : ReadPumpTeardown(c)
    \/ \E p \in Callers, c \in ClientIDs, reason \in Reasons : Close(p, c, reason)
    \/ Tick

SpecQueue == InitQueue /\ [][NextQueue]_vars

(***************************************************************************)
(* The authentication specification: two established sessions, "c1" and   *)
(* "c2", authenticate (again and again, from either device), disconnect    *)
(* and are removed, while time passes.                                     *)
(***************************************************************************)
AuthClients == { <<99, 49>>, <<99, 50>> }

InitAuth == Established(AuthClients, 0)

NextAuth ==
    \/ \E p \in Callers : AuthenticateClient(p, Users, Devices)
    \/ \E p \in Callers : RemoveClient(p)
    \/ \E c \in ClientIDs : ReadPumpTeardown(c)
    \/ Tick

SpecAuth == InitAuth /\ [][NextAuth]_vars

(***************************************************************************)
(* The registry specification: connections are added, removed and swept    *)
(* while a caller looks clients up and removes ids, registered or not.      *)
(***************************************************************************)
\* number of registry calls whose result the caller looks at
MaxLookups == 2

\* Manager.GetClient(clientID)
GetClient(id) ==
    /\ lookup.n < MaxLookups
    /\ lookup' = [op |-> "get", id |-> id, ret |-> ShardGetClient(id), n |-> lookup.n + 1]
    /\ UNCHANGED << srv, stop, send, mu, clusterVars, registryVars, cl, readPump, writePump, call, sweep,
                    limiterVars, hookVars, socket, queueVars, busVars,
                    serverVars, frameVars >>

\* Manager.RemoveClient(id, reason) on any id, with what shard.RemoveClient
\* returned to it
RemoveClientAny(p, id, reason) ==
    /\ lookup.n < MaxLookups
    /\ lookup' = [op |-> "remove", id |-> id, ret |-> ShardGetClient(id),
                  n |-> lookup.n + 1]
    /\ RemoveClientFind(p, id, reason)

NextRegistry ==
    \/ \E p \in Callers : AddConnection(p, MintOrder)
    \/ \E id \in ClientIDs : GetClient(id)
    \/ \E p \in Callers, id \in ClientIDs : RemoveClientAny(p, id, "kicked")
    \/ \E p \in Callers : RemoveClientCount(p)
    \/ \E p \in Callers : RemoveClientClose(p)
    \/ \E p \in Callers : RemoveClientHook(p)
    \/ \E c \in ClientIDs : ReadPumpTeardown(c)
    \/ Sweep
    \/ Tick

SpecRegistry == Init /\ [][NextRegistry]_vars

(***************************************************************************)
(* Manager.SendToUser and Shard.BroadcastToUser.                           *)
(***************************************************************************)
\* number of SendToUser calls in one behaviour
MaxSends == 1

\* the sessions of u a message can be enqueued on: registered, authenticated
\* as u, not closing, room in the send channel
Deliverable(u) ==
    { c \in ClientIDs :
        /\ cl[c].made /\ ShardHasClient(c)
        /\ cl[c].authenticated /\ cl[c].UserID = u
        /\ WriteResult(cl[c]) = "ok" }

\* SendToUser(userID, message): totalSent := 0, before the first shard
SendToUserCall(u, m) ==
    /\ send.pc \in {"idle", "done"}
    /\ send.calls < MaxSends
    /\ send' = [NoSend EXCEPT !.pc = "shard", !.user = u, !.msg = m,
                              !.at = Deliverable(u), !.calls = send.calls + 1]
    /\ UNCHANGED << srv, stop, lookup, mu, clusterVars, registryVars, cl, readPump, writePump, call, sweep,
                    limiterVars, hookVars, socket, queueVars, busVars,
                    serverVars, frameVars >>

\* if err := client.WriteMessage(message); err == nil { sent++ }
SentAfter(sent, err) == IF err = "ok" THEN sent + 1 ELSE sent

\* BroadcastToUser: client.WriteMessage(message) for one client of the slice
BroadcastToUserWrite(c) ==
    /\ send.pc = "write"
    /\ BagIn(c, send.todo)
    /\ cl' = [cl EXCEPT ![c].Send = WriteSend(cl[c], send.msg)]
    /\ send' = [send EXCEPT
                  !.todo = @ (-) SetToBag({c}),
                  !.sent = SentAfter(@, WriteResult(cl[c])),
                  !.got = IF WriteResult(cl[c]) = "ok" THEN @ (+) SetToBag({c}) ELSE @]
    /\ UNCHANGED << srv, stop, lookup, mu, clusterVars, registryVars, readPump, writePump, call, sweep,
                    limiterVars, hookVars, socket, queueVars, busVars,
                    serverVars, frameVars >>

\* BroadcastToUser returns sent; SendToUser adds it and goes to the next shard
BroadcastToUserReturn ==
    /\ send.pc = "write"
    /\ send.todo = EmptyBag
    /\ send' = [send EXCEPT !.pc = "shard", !.shard = @ + 1]
    /\ UNCHANGED << srv, stop, lookup, mu, clusterVars, registryVars, cl, readPump, writePump, call, sweep,
                    limiterVars, hookVars, socket, queueVars, busVars,
                    serverVars, frameVars >>

(***************************************************************************)
(* Shard.mu.  The lock calls of BroadcastToUser and of a mutator of the    *)
(* shard are steps of their own: each can wait for the other.              *)
(***************************************************************************)
\* RWMutex.RLock returns: no writer holds the lock and none is waiting for it
\* (a waiting Lock call holds back every new reader)
CanRLock(m) == ~ m.pending /\ ~ m.writer

\* the lock steps of SendToUser leave everything but send and mu alone
LockFrame ==
    UNCHANGED << srv, stop, lookup, clusterVars, registryVars, cl, readPump, writePump, call,
                 sweep, limiterVars, hookVars, socket, queueVars, busVars,
                 serverVars, frameVars >>

\* BroadcastToUser: s.mu.RLock()
BroadcastToUserRLock ==
    /\ send.pc = "shard" /\ send.shard < shardCount
    /\ CanRLock(mu[send.shard])
    /\ mu' = [mu EXCEPT ![send.shard].readers = @ + 1]
    /\ send' = [send EXCEPT !.pc = "rlocked"]
    /\ LockFrame

\* GetUserClients, called by BroadcastToUser: s.mu.RLock()
GetUserClientsRLock ==
    /\ send.pc = "rlocked"
    /\ CanRLock(mu[send.shard])
    /\ mu' = [mu EXCEPT ![send.shard].readers = @ + 1]
    /\ send' = [send EXCEPT !.pc = "get"]
    /\ LockFrame

\* GetUserClients: the slice, and the deferred s.mu.RUnlock()
GetUserClientsReturn ==
    /\ send.pc = "get"
    /\ mu' = [mu EXCEPT ![send.shard].readers = @ - 1]
    /\ send' = [send EXCEPT !.pc = "got",
                            !.todo = ShardGetUserClients(send.shard, send.user)]
    /\ LockFrame

\* BroadcastToUser: s.mu.RUnlock(), before the loop over the clients
BroadcastToUserRUnlock ==
    /\ send.pc = "got"
    /\ mu' = [mu EXCEPT ![send.shard].readers = @ - 1]
    /\ send' = [send EXCEPT !.pc = "write"]
    /\ LockFrame

\* SendToUser after the last shard: return totalSent, nil
SendToUserReturn ==
    /\ send.pc = "shard" /\ send.shard = shardCount
    /\ send' = [send EXCEPT !.pc = "done"]
    /\ UNCHANGED mu
    /\ LockFrame

\* Manager.SendToUser: BroadcastToUser on one shard after the other
SendToUser ==
    \/ \E u \in Users, m \in Payloads : SendToUserCall(u, m)
    \/ BroadcastToUserRLock
    \/ GetUserClientsRLock
    \/ GetUserClientsReturn
    \/ BroadcastToUserRUnlock
    \/ \E c \in ClientIDs : BroadcastToUserWrite(c)
    \/ BroadcastToUserReturn
    \/ SendToUserReturn

\* the mutator steps leave everything but the registry, cl, call and mu alone
MutatorFrame ==
    UNCHANGED << srv, stop, send, lookup, clusterVars, globalConns, readPump, writePump,
                 sweep, limiterVars, hookVars, socket, queueVars, busVars,
                 serverVars, frameVars >>

\* Shard.RegisterAuthenticatedClient(client, u, d): s.mu.Lock() is called
\* and holds back new readers
MutatorLock(p, c, u, d) ==
    /\ call[p].op = "idle"
    /\ ShardHasClient(c)
    /\ ~ mu[ShardOf[c]].pending /\ ~ mu[ShardOf[c]].writer
    /\ mu' = [mu EXCEPT ![ShardOf[c]].pending = TRUE]
    /\ call' = [call EXCEPT ![p] = [op |-> "register", pc |-> "lock", id |-> c,
                                    user |-> u, dev |-> d]]
    /\ UNCHANGED << clients, userClients, cl >>
    /\ MutatorFrame

\* s.mu.Lock() returns: the readers have left
MutatorAcquire(p) ==
    /\ call[p].op = "register" /\ call[p].pc = "lock"
    /\ mu[ShardOf[call[p].id]].readers = 0
    /\ mu' = [mu EXCEPT ![ShardOf[call[p].id]].pending = FALSE,
                        ![ShardOf[call[p].id]].writer = TRUE]
    /\ call' = [call EXCEPT ![p].pc = "held"]
    /\ UNCHANGED << clients, userClients, cl >>
    /\ MutatorFrame

\* the body of RegisterAuthenticatedClient and the deferred s.mu.Unlock()
MutatorUnlock(p) ==
    /\ call[p].op = "register" /\ call[p].pc = "held"
    /\ RegisterAuthenticatedClient(call[p].id, call[p].user, call[p].dev)
    /\ mu' = [mu EXCEPT ![ShardOf[call[p].id]].writer = FALSE]
    /\ call' = [call EXCEPT ![p] = Idle]
    /\ UNCHANGED clients
    /\ MutatorFrame

Mutator(p) ==
    \/ \E c \in ClientIDs, u \in Users, d \in Devices : MutatorLock(p, c, u, d)
    \/ MutatorAcquire(p)
    \/ MutatorUnlock(p)

(***************************************************************************)
(* The lock specification: two established sessions; a caller registers    *)
(* them as authenticated while a message is sent to their user.  Every     *)
(* goroutine that can take a step eventually takes one.                    *)
(***************************************************************************)
NextLock ==
    \/ SendToUser
    \/ \E p \in Callers : Mutator(p)

FairLock ==
    /\ WF_vars(SendToUser)
    /\ \A p \in Callers : WF_vars(Mutator(p))

SpecLock == InitAuth /\ [][NextLock]_vars /\ FairLock

(***************************************************************************)
(* The delivery specification: two established sessions in one shard, one  *)
(* of them with a full send channel or not, are registered as              *)
(* authenticated and closed while a message is sent to their user.         *)
(***************************************************************************)
\* two sessions in one shard
SendClients == { <<99, 49>>, <<99, 57>> }

InitSend == \E k \in {0, SendCap} : Established(SendClients, k)

NextSend ==
    \/ SendToUser
    \/ \E p \in Callers : Mutator(p)
    \/ \E p \in Callers, c \in ClientIDs, reason \in Reasons : Close(p, c, reason)

SpecSend == InitSend /\ [][NextSend]_vars

(***************************************************************************)
(* The read specification: one established session whose peer sends data   *)
(* frames, its pumps, and a caller that closes it, while time passes.  It   *)
(* starts with the send channel empty or full.                              *)
(***************************************************************************)
InitRead == \E k \in {0, SendCap} : Established({QueueClient}, k)

NextRead ==
    \/ \E c \in ClientIDs : ReadPump(c)
    \/ \E c \in ClientIDs : WritePump(c)
    \/ \E p \in Callers, c \in ClientIDs, reason \in Reasons : Close(p, c, reason)
    \/ Tick

SpecRead == InitRead /\ [][NextRead]_vars

(***************************************************************************)
(* The sharding specification: a configuration is loaded, NewManager       *)
(* builds the shard array and keys are looked up.                          *)
(***************************************************************************)
\* values of sharding.shard_count in a configuration file: 0, small counts,
\* and the counts around 2^16, 2^30, 2^31 and 2^32
ShardCounts ==
    { [top |-> 0, hi |-> 0, lo |-> k] : k \in {0, 1, 2, 3, 4, 5, 63, 64, 65, 65535} }
    \cup { [top |-> 0, hi |-> h, lo |-> k] :
             h \in {1, 16384, 32767, 32768, 65535}, k \in {0, 1, 65535} }
    \cup { [top |-> 1, hi |-> 0, lo |-> k] : k \in {0, 3} }

\* the keys looked up: client ids and user ids as bytes
Keys == { <<>>, <<99, 49>>, <<99, 50>>, <<99, 57>>, <<117, 49>>, <<117, 50>> }

\* validateConfig: cfg.Sharding.ShardCount <= 0 is refused
ValidShardCount(n) == n.top > 0 \/ n.hi > 0 \/ n.lo > 0

\* config.Load: the configuration is read and validated
Load(n) ==
    /\ mgr.pc = "none"
    /\ ValidShardCount(n)
    /\ mgr' = [mgr EXCEPT !.pc = "loaded", !.n = n]
    /\ UNCHANGED << opVars, clusterVars, registryVars, cl, readPump, writePump, call, sweep,
                    limiterVars, hookVars, socket, queueVars, busVars,
                    shutdown, admitted, inbound, frameVars >>

\* NewManager: shardCount and shardMask
NewManager ==
    /\ mgr.pc = "loaded"
    /\ LET c0 == ToUint32(mgr.n)
           c1 == IF c0 = [hi |-> 0, lo |-> 0] THEN [hi |-> 0, lo |-> 64] ELSE c0
           c2 == nextPowerOfTwo32(c1)
       IN  mgr' = [mgr EXCEPT !.pc = "made", !.shardCount = c2,
                              !.shardMask = Dec32(c2)]
    /\ UNCHANGED << opVars, clusterVars, registryVars, cl, readPump, writePump, call, sweep,
                    limiterVars, hookVars, socket, queueVars, busVars,
                    shutdown, admitted, inbound, frameVars >>

\* Manager.getShardID(key): h.Sum32() & m.shardMask
GetShardID(key) ==
    /\ mgr.pc \in {"made", "looked"}
    /\ mgr' = [mgr EXCEPT !.pc = "looked", !.key = key,
                          !.shard = And32(Fnv1a32(key), mgr.shardMask)]
    /\ UNCHANGED << opVars, clusterVars, registryVars, cl, readPump, writePump, call, sweep,
                    limiterVars, hookVars, socket, queueVars, busVars,
                    shutdown, admitted, inbound, frameVars >>

NextShards ==
    \/ \E n \in ShardCounts : Load(n)
    \/ NewManager
    \/ \E key \in Keys : GetShardID(key)

SpecShards == Init /\ [][NextShards]_vars

(***************************************************************************)
(* The frame-size specification: one established session under each of a   *)
(* range of configured max_message_size values; frames of the configured   *)
(* size, of one byte more and of one byte come in.                          *)
(***************************************************************************)
\* values of server.max_message_size that validateConfig accepts
MaxMessageSizes ==
    {1, 512 * 1024, 1024 * 1024 - 1, 1024 * 1024, 2 * 1024 * 1024, 10 * 1024 * 1024}

\* the sizes of the frames a peer sends under max_message_size M
FrameSizes(M) == {1, M, M + 1}

InitSize == \E M \in MaxMessageSizes : EstablishedUnder({QueueClient}, 0, M)

NextSize ==
    \/ \E c \in ClientIDs, n \in FrameSizes(inbound.max), m \in Payloads :
          ReadPumpSized(c, n, m)
    \/ \E c \in ClientIDs : ReadPumpRefuse(c)
    \/ \E c \in ClientIDs : ReadPumpHandle(c)
    \/ \E c \in ClientIDs : ReadPumpTeardown(c)
    \/ \E c \in ClientIDs : WritePumpEnd(c)
    \/ Tick

SpecSize == InitSize /\ [][NextSize]_vars

(***************************************************************************)
(* The admission specification: one established session and two http       *)
(* handlers that serve upgrade requests concurrently, while sessions end    *)
(* and time passes.                                                        *)
(***************************************************************************)
InitAdmit == Established({QueueClient}, 0)

NextAdmit ==
    \/ \E p \in Procs : AddConnection(p, AdmitOrder)
    \/ \E c \in ClientIDs : ReadPumpTeardown(c)
    \/ Tick

SpecAdmit == InitAdmit /\ [][NextAdmit]_vars

(***************************************************************************)
(* The counter specification: two goroutines that add and remove            *)
(* connections concurrently, the read pumps ending, the sweep and the       *)
(* passing of time.                                                        *)
(***************************************************************************)
NextCounter ==
    \/ \E p \in Procs : AddConnection(p, MintOrder)
    \/ \E p \in Procs : RemoveClient(p)
    \/ \E c \in ClientIDs : ReadPumpTeardown(c)
    \/ Sweep
    \/ Tick

SpecCounter == Init /\ [][NextCounter]_vars

(***************************************************************************)
(* The shutdown specification: two established sessions, the cleanup       *)
(* goroutine, the passing of time, and one call of Shutdown.  A peer may   *)
(* disconnect at any time (ReadPumpEnd, WritePumpEnd) or stay connected    *)
(* for ever; everything the gateway does by itself is scheduled fairly:    *)
(* the steps of Shutdown after the call, the cleanup goroutine (whose      *)
(* select finds m.ctx.Done() ready every time it waits for its ticker, so  *)
(* its exit is strongly fair), the end of a pump whose context is          *)
(* cancelled or whose socket is closed, and the teardown a pump has        *)
(* started.                                                                *)
(***************************************************************************)
\* ReadPump leaves its loop by itself: <-c.ctx.Done() or a failed ReadMessage
ReadPumpStops(c) ==
    /\ cl[c].cancelled \/ cl[c].connClosed
    /\ ReadPumpEnd(c)

\* WritePump leaves its loop by itself: <-c.ctx.Done(), the closed channel or
\* a failed write
WritePumpStops(c) ==
    /\ cl[c].cancelled \/ cl[c].sendClosed \/ cl[c].connClosed
    /\ WritePumpEnd(c)

InitShutdown == Established(AuthClients, 0)


(***************************************************************************)
(* The connect specification: connections are added and authenticate, or   *)
(* do not, their peers stay or leave, and time keeps passing.  A call and a *)
(* read pump that has left its loop run on to their end; the peers are      *)
(* free to stay for ever.                                                   *)
(***************************************************************************)
NextConnect ==
    \/ \E p \in Callers : AddConnection(p, MintOrder)
    \/ \E p \in Callers : AuthenticateClient(p, Users, OneDevice)
    \/ \E c \in ClientIDs : ReadPumpTeardown(c)
    \/ \E c \in ClientIDs : WritePumpEnd(c)
    \/ Tick

FairConnect ==
    /\ WF_vars(Tick)
    /\ \A p \in Callers :
          WF_vars(AddConnectionShard(p) \/ AddConnectionCount(p)
                  \/ AddConnectionHook(p) \/ AddConnectionReject(p)
                  \/ AuthenticateAllow(p)
                  \/ AuthenticateRegister(p) \/ AuthenticateReject(p))
    /\ \A c \in ClientIDs :
          WF_vars(ReadPumpCount(c) \/ ReadPumpClose(c) \/ ReadPumpHook(c)
                     \/ ReadPumpCleanup(c))

SpecConnect == Init /\ [][NextConnect]_vars /\ FairConnect

(***************************************************************************)
(* The heartbeat specification: two established sessions whose peers may   *)
(* stop answering pings, or close, while time passes and callers close      *)
(* sessions.                                                                *)
(***************************************************************************)
InitHeartbeat == Established(AuthClients, 0)

NextHeartbeat ==
    \/ \E P \in SUBSET AuthClients : Elapse(P)
    \/ \E c \in ClientIDs : ReadPumpTimeout(c)
    \/ \E c \in ClientIDs : ReadPumpTeardown(c)
    \/ \E c \in ClientIDs : WritePumpEnd(c)
    \/ \E p \in Callers, c \in ClientIDs, reason \in Reasons : Close(p, c, reason)

SpecHeartbeat == InitHeartbeat /\ [][NextHeartbeat]_vars

(***************************************************************************)
(* The bus adapter (pubsub.RedisPubSub).                                   *)
(***************************************************************************)
\* what the listener can receive: a payload that parses as an envelope or
\* not, its node_id, and a message that parses as a BaseMessage or not
Envelopes ==
    [ parses : BOOLEAN, NodeID : Nodes, innerParses : BOOLEAN, Type : Types ]

\* RedisPubSub.processMessage on the node whose r.nodeID is self: the handler
\* invocations it makes for e
DispatchAt(self, e, hs) ==
    IF ~ e.parses THEN {}
    ELSE IF e.NodeID = self THEN {}
    ELSE IF ~ e.innerParses THEN {}
    ELSE IF e.Type \notin hs THEN {}
    ELSE { [NodeID |-> e.NodeID, Type |-> e.Type] }

\* a dispatch without the comparison of envelope.NodeID with r.nodeID
DispatchOwn(e, hs) ==
    IF ~ e.parses THEN {}
    ELSE IF ~ e.innerParses THEN {}
    ELSE IF e.Type \notin hs THEN {}
    ELSE { [NodeID |-> e.NodeID, Type |-> e.Type] }

\* RedisPubSub.processMessage: the handler invocations it makes for e
Dispatch(e, hs) == DispatchAt(nodeID, e, hs)

\* RedisPubSub.RegisterHandler(msgType, handler)
RegisterHandler(t) ==
    /\ handlers' = handlers \cup {t}
    /\ UNCHANGED << opVars, clusterVars, registryVars, cl, readPump, writePump, call, sweep,
                    limiterVars, hookVars, socket, queueVars, invoked, received,
                    lastEnv, listener,
                    serverVars, frameVars >>

\* a listener that ends when a handler returns an error
AfterHandlerStops(err) == IF err = "nil" THEN "listen" ELSE "stopped"

\* processMessage after handler(ctx, baseMsg) returned err: the error is
\* logged, processMessage returns and listen is in its select again
AfterHandler(err) == "listen"

\* RedisPubSub.listen: one message from the subscription, processMessage(msg)
\* up to the call of the handler
ListenReceive(e) ==
    /\ listener.pc = "listen"
    /\ received < MaxBusMsgs
    /\ received' = received + 1
    /\ invoked' = invoked \cup Dispatch(e, handlers)
    /\ lastEnv' = [env |-> e, handled |-> e.Type \in handlers]
    /\ listener' = IF Dispatch(e, handlers) = {} THEN listener
                   ELSE [listener EXCEPT !.pc = "handler", !.expired = FALSE]
    /\ UNCHANGED << clusterVars, registryVars, cl, readPump, writePump, call, sweep,
                    limiterVars, hookVars, socket, queueVars, handlers,
                    serverVars, frameVars >>

\* listen while nobody shuts the adapter down
ProcessMessage(e) ==
    /\ ListenReceive(e)
    /\ UNCHANGED opVars

\* context.WithTimeout(r.ctx, 5*time.Second): the handler's context is done
HandlerDeadline ==
    /\ listener.pc = "handler"
    /\ ~ listener.expired
    /\ listener' = [listener EXCEPT !.expired = TRUE]
    /\ UNCHANGED << opVars, clusterVars, registryVars, cl, readPump, writePump, call, sweep,
                    limiterVars, hookVars, socket, queueVars, handlers, invoked,
                    received, lastEnv, serverVars, frameVars >>

\* handler(ctx, baseMsg) returns err to processMessage, which the handler
\* alone decides to do
HandlerReturn(err) ==
    /\ listener.pc = "handler"
    /\ listener' = [pc |-> AfterHandler(err), expired |-> FALSE,
                    failed |-> listener.failed \/ err # "nil"]
    /\ UNCHANGED << opVars, clusterVars, registryVars, cl, readPump, writePump, call, sweep,
                    limiterVars, hookVars, socket, queueVars, handlers, invoked,
                    received, lastEnv, serverVars, frameVars >>

NextBus ==
    \/ \E t \in Types : RegisterHandler(t)
    \/ \E e \in Envelopes : ProcessMessage(e)
    \/ HandlerDeadline
    \/ \E err \in {"nil", "error"} : HandlerReturn(err)

\* time passes and the subscription's channel is read when listen is in its
\* select; nothing makes a handler return
FairBus == WF_vars(HandlerDeadline) /\ WF_vars(\E e \in Envelopes : ProcessMessage(e))

SpecBusFair == Init /\ [][NextBus]_vars /\ FairBus

SpecBus == Init /\ [][NextBus]_vars

(***************************************************************************)
(* RedisPubSub.Shutdown and the listen goroutine it waits for.             *)
(***************************************************************************)
\* the steps of Shutdown and listen leave everything but the bus alone
StopFrame ==
    UNCHANGED << srv, send, lookup, mu, clusterVars, registryVars, cl, readPump, writePump,
                 call, sweep, limiterVars, hookVars, socket, queueVars, handlers,
                 serverVars, frameVars >>

\* Shutdown: r.cancel()
BusShutdownCancel ==
    /\ stop.pc = "no"
    /\ stop' = [stop EXCEPT !.pc = "close", !.ctxDone = TRUE]
    /\ UNCHANGED << invoked, received, lastEnv, listener >>
    /\ StopFrame

\* Shutdown: r.subscriber.Close(), then r.wg.Wait()
BusShutdownClose ==
    /\ stop.pc = "close"
    /\ stop' = [stop EXCEPT !.pc = "wait", !.closed = TRUE]
    /\ UNCHANGED << invoked, received, lastEnv, listener >>
    /\ StopFrame

\* the closed subscription closes the channel that r.subscriber.Channel()
\* returned
ChannelClosed ==
    /\ stop.closed /\ ~ stop.chClosed
    /\ stop' = [stop EXCEPT !.chClosed = TRUE]
    /\ UNCHANGED << invoked, received, lastEnv, listener >>
    /\ StopFrame

\* Shutdown: r.wg.Wait() returns once listen has returned, then
\* r.client.Close()
BusShutdownReturn ==
    /\ stop.pc = "wait"
    /\ listener.pc = "returned"
    /\ stop' = [stop EXCEPT !.pc = "done"]
    /\ UNCHANGED << invoked, received, lastEnv, listener >>
    /\ StopFrame

\* listen, select: case <-r.ctx.Done(): return
ListenDone ==
    /\ listener.pc = "listen"
    /\ stop.ctxDone
    /\ listener' = [listener EXCEPT !.pc = "returned"]
    /\ UNCHANGED << stop, invoked, received, lastEnv >>
    /\ StopFrame

\* listen, select: case msg := <-ch with a message of the open channel; a
\* select with several ready cases takes any of them, so r.ctx may be done
ListenMessage(e) ==
    /\ ~ stop.chClosed
    /\ ListenReceive(e)
    /\ stop' = [stop EXCEPT !.late = IF stop.ctxDone /\ Dispatch(e, handlers) # {}
                                      THEN @ + 1 ELSE @]
    /\ UNCHANGED << srv, send, lookup, mu >>

\* listen, select: case msg := <-ch on the closed channel yields nil without
\* a second result to test, and processMessage(nil) reads redisMsg.Payload
ListenClosed ==
    /\ listener.pc = "listen"
    /\ stop.chClosed
    /\ listener' = [listener EXCEPT !.pc = "fault"]
    /\ UNCHANGED << stop, invoked, received, lastEnv >>
    /\ StopFrame

NextBusStop ==
    \/ \E t \in Types : RegisterHandler(t)
    \/ \E e \in Envelopes : ListenMessage(e)
    \/ ListenDone
    \/ ListenClosed
    \/ HandlerDeadline
    \/ \E err \in {"nil", "error"} : HandlerReturn(err)
    \/ BusShutdownCancel
    \/ BusShutdownClose
    \/ ChannelClosed
    \/ BusShutdownReturn

SpecBusStop == Init /\ [][NextBusStop]_vars

(***************************************************************************)
(* The server-stop specification: two sessions whose peers may leave, the  *)
(* bus listener, and callers that call Shutdown one after the other or at  *)
(* the same time.                                                          *)
(***************************************************************************)
NextServerStop ==
    \/ \E p \in Procs : ServerShutdown(p)
    \/ ServerShutdownHTTP
    \/ ServerShutdownManager
    \/ ServerShutdownRouter
    \/ ServerShutdownBus
    \/ ServerShutdownMetrics
    \/ \E p \in Procs : ServerShutdownWaited(p)
    \/ SweepExit
    \/ \E c \in ClientIDs : ReadPumpTeardown(c)
    \/ \E c \in ClientIDs : WritePumpEnd(c)
    \/ ChannelClosed
    \/ ListenDone
    \/ ListenClosed

\* the life of the server: the same with the goroutine of Start, from a
\* server with sessions or from one main has just constructed
NextServerLife ==
    \/ NextServerStop
    \/ ServerStartAssign
    \/ ServerStartListen

SpecServerStop == (InitShutdown \/ InitStart) /\ [][NextServerLife]_vars

\* the shutdown specification: the same with the sweep and the clock, and
\* every goroutine of the gateway going on when it can
NextShutdown ==
    \/ NextServerStop
    \/ Sweep
    \/ Tick

FairShutdown ==
    /\ WF_vars(ServerShutdownHTTP) /\ WF_vars(ServerShutdownManager)
    /\ WF_vars(ServerShutdownRouter) /\ WF_vars(ServerShutdownBus)
    /\ WF_vars(ServerShutdownMetrics)
    /\ \A p \in Procs : WF_vars(ServerShutdownWaited(p))
    /\ WF_vars(ListenDone \/ ListenClosed)
    /\ WF_vars(Sweep) /\ SF_vars(SweepExit) /\ WF_vars(Tick)
    /\ \A c \in ClientIDs :
          /\ WF_vars(ReadPumpStops(c))
          /\ WF_vars(ReadPumpCount(c) \/ ReadPumpClose(c) \/ ReadPumpHook(c)
                     \/ ReadPumpCleanup(c))
          /\ WF_vars(WritePumpStops(c))

SpecShutdown == InitShutdown /\ [][NextShutdown]_vars /\ FairShutdown

(***************************************************************************)
(* The cluster: the bus adapters of the nodes on one bus, which hands every *)
(* publication once to every subscriber of its channel.                     *)
(***************************************************************************)
\* the message types published in SpecCluster
ClusterTypes == {"message", "presence"}
NoType == ""

\* processMessage: the envelope read from payload j, and whether
\* envelope.Message parses as a protocol.BaseMessage
Received(j) ==
    LET parses == UnmarshalsToStruct(j)
        inner == parses /\ "message" \in DOMAIN j.val
                        /\ UnmarshalsToStruct(j.val.message)
    IN  [ parses |-> parses,
          NodeID |-> IF parses /\ "node_id" \in DOMAIN j.val
                     THEN j.val.node_id ELSE "",
          innerParses |-> inner,
          Type |-> IF inner THEN j.val.message.val.Type ELSE NoType ]

\* RedisPubSub.RegisterHandler(msgType, handler) on node n
RegisterHandlerAt(n, t) ==
    /\ t \notin node[n].handlers
    /\ node' = [node EXCEPT ![n].handlers = @ \cup {t}]
    /\ UNCHANGED << opVars, registryVars, cl, readPump, writePump, call, sweep,
                    limiterVars, hookVars, socket, queueVars, busVars,
                    serverVars, frameVars, pubs, pub >>

\* RedisPubSub.SubscribeToUser(userID, handler) on node n: every call makes a
\* subscription with a channel of its own, and a goroutine that reads it
SubscribeToUser(n, u) ==
    /\ Len(node[n].userSub[u]) < MaxUserSubs
    /\ node' = [node EXCEPT ![n].userSub[u] = Append(@, <<>>)]
    /\ UNCHANGED << opVars, registryVars, cl, readPump, writePump, call, sweep,
                    limiterVars, hookVars, socket, queueVars, busVars,
                    serverVars, frameVars, pubs, pub >>

\* RedisPubSub.Publish(ctx, msg) on node n, of a message of type t: every node
\* subscribes to r.channel at startup, and the bus hands each the payload
Publish(n, t) ==
    /\ pubs < MaxPubs
    /\ pubs' = pubs + 1
    /\ node' = Published(n, [Type |-> t, MessageID |-> pubs + 1])
    /\ UNCHANGED << opVars, registryVars, cl, readPump, writePump, call, sweep,
                    limiterVars, hookVars, socket, queueVars, busVars,
                    serverVars, frameVars, pub >>

\* RedisPubSub.PublishUserMessage(ctx, userID, msg) on node n: the bus hands
\* the payload to every subscription to the user's channel
PublishUserMessage(n, u, t) ==
    /\ pubs < MaxPubs
    /\ pubs' = pubs + 1
    /\ LET m == [Type |-> t, MessageID |-> pubs + 1]
       IN  node' = [b \in Nodes |->
                [node[b] EXCEPT
                    !.userSub[u] = [i \in 1 .. Len(@) |-> Append(@[i], Marshal(m))],
                    !.sent = IF b = n
                             THEN Append(@, [msg |-> m, channel |-> "user",
                                             to |-> { x \in Nodes : node[x].userSub[u] # <<>> }])
                             ELSE @]]
    /\ UNCHANGED << opVars, registryVars, cl, readPump, writePump, call, sweep,
                    limiterVars, hookVars, socket, queueVars, busVars,
                    serverVars, frameVars, pub >>

\* RedisPubSub.listen on node n: msg := <-ch, r.processMessage(msg)
Listen(n) ==
    /\ node[n].sub # <<>>
    /\ LET j == Head(node[n].sub)
       IN  node' = [node EXCEPT
                ![n].sub = Tail(@),
                ![n].got = IF DispatchAt(n, Received(j), node[n].handlers) # {}
                           THEN Append(@, [msg |-> j.val.message.val,
                                           channel |-> "broadcast"])
                           ELSE @]
    /\ UNCHANGED << opVars, registryVars, cl, readPump, writePump, call, sweep,
                    limiterVars, hookVars, socket, queueVars, busVars,
                    serverVars, frameVars, pubs, pub >>

\* the goroutine of the i-th SubscribeToUser(u) on node n: msg := <-ch of its
\* own subscription, and the handler when the payload parses as a
\* protocol.BaseMessage; the goroutines run independently of each other
UserListen(n, u, i) ==
    /\ i \in 1 .. Len(node[n].userSub[u])
    /\ node[n].userSub[u][i] # <<>>
    /\ LET j == Head(node[n].userSub[u][i])
       IN  node' = [node EXCEPT
                ![n].userSub[u][i] = Tail(@),
                ![n].got = IF UnmarshalsToStruct(j)
                           THEN Append(@, [msg |-> j.val, channel |-> "user"])
                           ELSE @]
    /\ UNCHANGED << opVars, registryVars, cl, readPump, writePump, call, sweep,
                    limiterVars, hookVars, socket, queueVars, busVars,
                    serverVars, frameVars, pubs, pub >>

\* what the one call r.client.Publish(...).Err() comes to: the broker
\* accepted the PUBLISH and the client returns nil, or it did not and the
\* client returns an error
Outcomes ==
    { [accepted |-> TRUE, err |-> "nil"], [accepted |-> FALSE, err |-> "error"] }

\* Publish: what it returns when r.client.Publish(...).Err() is err
PublishReturns(err) ==
    IF err # "nil" THEN "redis publish failed" ELSE "nil"

\* RedisPubSub.Publish(ctx, msg) on node n, of a message of type t: the
\* envelope is built and handed to the client
PublishCall(n, t) ==
    /\ pub.pc \in {"idle", "done"}
    /\ pubs < MaxPubs
    /\ pubs' = pubs + 1
    /\ pub' = [NoPublish EXCEPT !.pc = "send", !.node = n,
                                !.msg = [Type |-> t, MessageID |-> pubs + 1]]
    /\ UNCHANGED << opVars, registryVars, cl, readPump, writePump, call, sweep,
                    limiterVars, hookVars, socket, queueVars, busVars,
                    serverVars, frameVars, node >>

\* if err := r.client.Publish(ctx, r.channel, envelopeBytes).Err(); err != nil:
\* the one call Publish makes for the message, and its return; there is no
\* second call and no copy of the message is kept
PublishSend(o) ==
    /\ pub.pc = "send"
    /\ node' = IF o.accepted THEN Published(pub.node, pub.msg) ELSE node
    /\ pub' = [pub EXCEPT !.pc = "done", !.attempts = @ + 1,
                          !.accepted = o.accepted, !.ret = PublishReturns(o.err)]
    /\ UNCHANGED << opVars, registryVars, cl, readPump, writePump, call, sweep,
                    limiterVars, hookVars, socket, queueVars, busVars,
                    serverVars, frameVars, pubs >>

(***************************************************************************)
(* The publish specification: one node after the other publishes through   *)
(* a broker that may fail, and the listeners take what the bus hands them.  *)
(***************************************************************************)
NextPublish ==
    \/ \E n \in Nodes, t \in ClusterTypes : PublishCall(n, t)
    \/ \E o \in Outcomes : PublishSend(o)
    \/ \E n \in Nodes : Listen(n)

SpecPublish == Init /\ [][NextPublish]_vars

NextCluster ==
    \/ \E n \in Nodes, t \in ClusterTypes : RegisterHandlerAt(n, t)
    \/ \E n \in Nodes, u \in Users : SubscribeToUser(n, u)
    \/ \E n \in Nodes, t \in ClusterTypes : Publish(n, t)
    \/ \E n \in Nodes, u \in Users, t \in ClusterTypes : PublishUserMessage(n, u, t)
    \/ \E n \in Nodes : Listen(n)
    \/ \E n \in Nodes, u \in Users, i \in 1 .. MaxUserSubs : UserListen(n, u, i)

SpecCluster == Init /\ [][NextCluster]_vars

(***************************************************************************)
(* Properties.                                                             *)
(***************************************************************************)
RECURSIVE SumOver(_, _)
SumOver(f, S) ==
    IF S = {} THEN 0
    ELSE LET x == CHOOSE y \in S : TRUE IN f[x] + SumOver(f, S \ {x})

\* the sum over all shards of the size of the shard's primary map
PrimaryTotal == SumOver([s \in Shards |-> Cardinality(clients[s])], Shards)

\* AddConnection calls between shard.AddClient and the increment
PendingAdds ==
    Cardinality({ p \in Procs : call[p].op = "add" /\ call[p].pc = "count" })

\* removals between the shard's delete and the decrement: RemoveClient calls,
\* read pumps in teardown, and the ids the sweep has removed
PendingRemoves ==
    Cardinality({ p \in Procs : call[p].op = "remove" /\ call[p].pc = "count" })
    + Cardinality({ c \in ClientIDs : readPump[c] = "count" })
    + Cardinality(sweep.pending)

\* a session that is registered and not closing
Live(c) == cl[c].made /\ ShardHasClient(c) /\ ~ cl[c].closing

\* the client is stored in the user map of some shard
InSecondary(c) ==
    \E s \in Shards, u \in Users, d \in Devices : userClients[s][u][d] = c

\* C1, as stated: in every reachable state the global connection counter
\* equals the sum over all shards of the size of the primary map.
CounterEqualsPrimaryTotal == globalConns = PrimaryTotal

\* C1, amended: the counter equals the sum of the primary map sizes, minus
\* the additions whose increment is still to come, plus the removals whose
\* decrement is still to come; so the two are equal whenever no AddConnection,
\* RemoveClient or sweep is between its map update and its counter update.
CounterTracksPrimaryTotal ==
    globalConns = PrimaryTotal - PendingAdds + PendingRemoves

\* two AddConnection calls are between shard.AddClient and the increment
TwoAddsInFlight == PendingAdds = 2

\* an addition and a removal are in flight at the same time
AddAndRemoveInFlight == PendingAdds >= 1 /\ PendingRemoves >= 1

\* C1 witness: with nothing in flight, one session has been removed and
\* another is registered
CounterSettledAfterRemoval ==
    /\ PendingAdds = 0 /\ PendingRemoves = 0
    /\ globalConns = 1
    /\ \E c \in ClientIDs : cl[c].made /\ ~ ShardHasClient(c) /\ Len(disconnects[c]) = 1
    /\ \E c \in ClientIDs : Live(c)

\* C2, as stated: for every shard s, user u and device d, the client stored
\* at s.userClients[u][d] is also in s.clients.
SecondaryWithinPrimary ==
    \A s \in Shards, u \in Users, d \in Devices :
        userClients[s][u][d] # NoClient => userClients[s][u][d] \in clients[s]

\* C3, as stated: once authentications have completed, no two live sessions
\* hold the same (user_id, device_id) pair: the older one has been closed.
OneLiveSessionPerDevice ==
    (\A p \in Procs : call[p].op = "idle") =>
        \A c1, c2 \in ClientIDs :
            ( /\ c1 # c2
              /\ Live(c1) /\ cl[c1].authenticated
              /\ Live(c2) /\ cl[c2].authenticated
              /\ cl[c1].UserID = cl[c2].UserID )
            => cl[c1].DeviceID # cl[c2].DeviceID

\* C4, as stated: for every user u the number of live sessions authenticated
\* as u is at most connections_per_user.
UserSessionsWithinCap ==
    \A u \in Users :
        Cardinality({ c \in ClientIDs :
                        Live(c) /\ cl[c].authenticated /\ cl[c].UserID = u })
            <= cfg.RateLimit.ConnectionsPerUser

\* C5: for every session the number of messages in its send channel is at
\* most 256, whatever WriteMessage callers and the write pump do.
SendWithinCap == \A c \in ClientIDs : cl[c].made => Len(cl[c].Send) <= SendCap

\* C5 witness: a WriteMessage has put the 256th message on the channel
SendFilledByWrite ==
    /\ written.id = QueueClient /\ written.ret = "ok"
    /\ Len(cl[QueueClient].Send) = SendCap

\* C6: a WriteMessage on an open session whose send channel is full returns
\* at once with the client-slow error, leaves the channel's content and length
\* as they were, and leaves the session open and registered.
WriteOnFullChannel ==
    [][ \A p \in Procs, c \in ClientIDs, m \in Payloads :
          ( /\ WriteMessage(p, c, m)
            /\ ~ cl[c].closing
            /\ Len(cl[c].Send) = SendCap )
          => /\ written'.ret = ErrClientSlow
             /\ cl'[c].Send = cl[c].Send
             /\ ~ cl'[c].closing
             /\ clients' = clients
             /\ call'[p].op = "idle" ]_vars

\* C6 witness: a write was refused as slow and the session is still open,
\* registered and full
SlowWriteRefused ==
    /\ written.id = QueueClient /\ written.ret = ErrClientSlow
    /\ Len(cl[QueueClient].Send) = SendCap
    /\ Live(QueueClient)

\* C7: no handler is invoked for an envelope whose node_id is this node's,
\* whatever its inner type and whatever handlers are registered.
NoHandlerForOwnEnvelope == \A i \in invoked : i.NodeID # nodeID

\* C7 witness: an envelope of this node, well formed and of a type that had
\* a handler, has been processed
OwnEnvelopeProcessed ==
    /\ received > 0
    /\ lastEnv.handled
    /\ lastEnv.env.NodeID = nodeID
    /\ lastEnv.env.parses /\ lastEnv.env.innerParses

\* C8, as stated: however many close and remove requests there were, once
\* they have all returned and both pumps of a session have ended, the session
\* has had exactly one invocation of the on-disconnect hook.
OneDisconnectPerSession ==
    \A c \in ClientIDs :
        /\ Len(disconnects[c]) <= 1
        /\ ( /\ readPump[c] = "done" /\ writePump[c].pc = "done"
             /\ \A p \in Procs : call[p].op = "idle"
             /\ sweep.pending = {} )
               => Len(disconnects[c]) = 1

\* C9, as stated: a closing session has both pipelines cancelled, its send
\* channel and its socket closed; and once the teardown that close starts
\* has run to its end the session is in neither map of any shard.
ClosedSessionUnregistered ==
    \A c \in ClientIDs :
        /\ cl[c].closing =>
               cl[c].cancelled /\ cl[c].sendClosed /\ cl[c].connClosed
        /\ ( /\ cl[c].closing /\ readPump[c] = "done"
             /\ \A p \in Procs : call[p].op = "idle" )
               => ~ ShardHasClient(c) /\ ~ InSecondary(c)

\* C10: a closing flag that is set is never cleared, and a WriteMessage on a
\* closing session returns the client-closed error and adds nothing to the
\* send channel.
ClosingIsTerminal ==
    [][ /\ \A c \in ClientIDs : cl[c].closing => cl'[c].closing
        /\ \A p \in Procs, c \in ClientIDs, m \in Payloads :
             (WriteMessage(p, c, m) /\ cl[c].closing)
             => /\ written'.ret = ErrClientClosed
                /\ cl'[c].Send = cl[c].Send ]_vars

\* C10 witness: a write on a closing session was refused as closed
ClosedWriteRefused ==
    /\ written.id = QueueClient /\ written.ret = ErrClientClosed
    /\ cl[QueueClient].closing

\* C11, as stated: from any state, a call of Shutdown eventually returns,
\* also when sessions are open whose peers never disconnect.
ShutdownReturns == (shutdown.pc # "no") ~> (shutdown.pc = "done")

\* C12, as stated: once Shutdown is called, every session that is still open
\* gets closed by the gateway and leaves the registry.
ShutdownClosesSessions ==
    (shutdown.pc # "no") ~>
        (\A c \in ClientIDs : cl[c].made => cl[c].closing /\ ~ ShardHasClient(c))

\* C13, as stated: under any interleaving of concurrent AddConnection calls
\* the global connection counter never exceeds the global_connections ceiling.
CeilingRespected == globalConns <= maxConns

\* C14, as stated: a request that ServeHTTP does not admit, because of the ip
\* limit or of the global ceiling, has not been upgraded and is answered with
\* status 429 (ip) or 503 (global).
RejectedBeforeUpgrade ==
    \A p \in Procs :
        (call[p].op = "add" /\ call[p].pc = "rejected") =>
            /\ ~ call[p].upgraded
            /\ call[p].status = IF call[p].err = "ip" THEN 429 ELSE 503

\* C15, as stated: no more than max_conns_per_ip connections of one ip are
\* admitted without time passing in between.
AdmittedWithinIPLimit ==
    \A ip \in IPs : admitted[ip] <= cfg.Server.MaxConnsPerIP

\* the frames of log a that the limiter allowed, in arrival order
AllowedOf(a) ==
    LET ok == SelectSeq(a, LAMBDA e : e.allowed)
    IN  [i \in 1 .. Len(ok) |-> ok[i].msg]

\* the frames of session c the read pump is through with
Settled(c) ==
    IF readPump[c] \in {"handle", "refuse"}
    THEN SubSeq(arrived[c], 1, Len(arrived[c]) - 1)
    ELSE arrived[c]

\* the read pump of session c leaves the error reply for a refused frame
Refusal(c) == readPump[c] = "refuse" /\ readPump'[c] = "run"

\* the refusal leaves the session as it was: no frame handled, not closing,
\* registered if it was
RefusalKeepsSession(c) ==
    /\ handled'[c] = handled[c]
    /\ cl'[c].closing = cl[c].closing
    /\ (c \in clients'[ShardOf[c]]) = (c \in clients[ShardOf[c]])

\* C16, as stated: the frames passed to the handler are the allowed frames in
\* arrival order, and every refusal appends the RATE_LIMIT_EXCEEDED frame to
\* the session's send channel and leaves the session open and registered.
RefusedFrameEnqueued ==
    /\ [](\A c \in ClientIDs : handled[c] = AllowedOf(Settled(c)))
    /\ [][\A c \in ClientIDs :
            Refusal(c) =>
                /\ cl'[c].Send = Append(cl[c].Send, RateLimitFrame)
                /\ RefusalKeepsSession(c)]_vars

\* C16, amended: the frames passed to the handler are the allowed frames in
\* arrival order; a refusal appends the RATE_LIMIT_EXCEEDED frame to the
\* session's send channel unless the channel is full or the session is
\* closing, and then the error frame is dropped; the refusal leaves the
\* session open and registered.
RefusedFrameAnswered ==
    /\ [](\A c \in ClientIDs : handled[c] = AllowedOf(Settled(c)))
    /\ [][\A c \in ClientIDs :
            Refusal(c) =>
                /\ cl'[c].Send =
                       IF ~ cl[c].closing /\ Len(cl[c].Send) < SendCap
                       THEN Append(cl[c].Send, RateLimitFrame)
                       ELSE cl[c].Send
                /\ RefusalKeepsSession(c)]_vars

\* C16 happens: two frames were handled, a third was refused, and its error
\* frame is the last of the send channel of the open, registered session
RefusalEnqueued ==
    \E c \in ClientIDs :
        /\ readPump[c] = "run" /\ ~ cl[c].closing /\ ShardHasClient(c)
        /\ Len(handled[c]) >= 2
        /\ \E i \in 1 .. Len(arrived[c]) : ~ arrived[c][i].allowed
        /\ cl[c].Send # <<>>
        /\ cl[c].Send[Len(cl[c].Send)] = RateLimitFrame

\* the sweep is through with session id, which it found inactive
Swept(id) == id \in sweep.pending /\ id \notin sweep'.pending

\* C17, as stated: a session the sweep found inactive and removed from the
\* registry is closed (closing, socket and send channel closed, context
\* cancelled), and the on-disconnect hook is invoked for it with the
\* inactivity reason.
SweepClosesInactive ==
    [][\A id \in ClientIDs :
         Swept(id) =>
             /\ ~ ShardHasClient(id)'
             /\ cl'[id].closing /\ cl'[id].connClosed /\ cl'[id].sendClosed
             /\ cl'[id].cancelled
             /\ disconnects'[id] = Append(disconnects[id], "inactive_timeout")]_vars

\* the registered sessions authenticated as u
SessionsOf(u) ==
    { c \in ClientIDs :
        cl[c].made /\ ShardHasClient(c) /\ cl[c].authenticated /\ cl[c].UserID = u }

\* C18, as stated: once authentications and removals have completed,
\* GetUserClients(u) returns exactly the registered sessions authenticated as
\* u: every one of them, and no removed session.
LookupUserExact ==
    (\A p \in Procs : call[p].op = "idle") =>
        \A u \in Users : BagToSet(GetUserClients(u)) = SessionsOf(u)

\* the bus has handed over every publication and every listener is through
BusQuiet ==
    \A n \in Nodes :
        /\ node[n].sub = <<>>
        /\ \A u \in Users : \A i \in 1 .. Len(node[n].userSub[u]) :
              node[n].userSub[u][i] = <<>>

\* the number of handler invocations node n made for message m
Copies(n, m) ==
    Cardinality({ i \in 1 .. Len(node[n].got) : node[n].got[i].msg = m })

\* C19, as stated: once the bus has handed a publication of node a to every
\* subscriber, every other node that had a handler for it has passed the
\* message to that handler exactly once, and node a has passed it to none of
\* its own handlers.
DeliveredOnceAcrossNodes ==
    BusQuiet =>
        \A a \in Nodes : \A i \in 1 .. Len(node[a].sent) :
            /\ \A b \in node[a].sent[i].to \ {a} : Copies(b, node[a].sent[i].msg) = 1
            /\ Copies(a, node[a].sent[i].msg) = 0

\* C20, as stated: every payload on the broadcast channel and on the
\* per-user channels is an envelope carrying a node id, and no node passes
\* to a handler a message it published itself.
PublicationsEnveloped ==
    \A n \in Nodes :
        /\ \A i \in 1 .. Len(node[n].sub) :
              Received(node[n].sub[i]).NodeID \in Nodes
        /\ \A u \in Users : \A i \in 1 .. Len(node[n].userSub[u]) :
              \A k \in 1 .. Len(node[n].userSub[u][i]) :
                  Received(node[n].userSub[u][i][k]).NodeID \in Nodes
        /\ \A i \in 1 .. Len(node[n].sent) : Copies(n, node[n].sent[i].msg) = 0

\* the payloads of the frame the write pump of session c is building
InFlight(c) ==
    IF writePump[c].pc \in {"len", "drain"} THEN writePump[c].frame ELSE <<>>

\* the outbound payloads of session c: those on the socket, those of the
\* frame in the making, and those waiting in the send channel
Outbound(c) == socket[c] \o InFlight(c) \o cl[c].Send

\* C21: the outbound payloads of a session change only at their end, where
\* an enqueued payload is added, or by losing the frame in the making when
\* the write fails; so the payloads on the socket are a prefix of the
\* payloads enqueued, in enqueue order, coalesced or not.
SocketInEnqueueOrder ==
    [][\A c \in ClientIDs :
         \/ Outbound(c)' = Outbound(c)
         \/ \E m \in Payloads : Outbound(c)' = Append(Outbound(c), m)
         \/ /\ writePump'[c].pc = "done"
            /\ socket'[c] = socket[c]
            /\ Outbound(c)' = socket[c] \o cl[c].Send]_vars

\* C21 happens: two different payloads were enqueued and written
TwoPayloadsWritten ==
    \E c \in ClientIDs :
        /\ writes = 2 /\ cl[c].Send = <<>> /\ writePump[c].pc = "run"
        /\ socket[c] = << "b", "a" >>

\* C22, as stated: a read pump fails with a timeout only when the read
\* deadline has passed since the last pong, and once the read pump of a
\* session whose deadline expired is through, the session is closing, is out
\* of the registry, and was disconnected with reason heartbeat_timeout.
MissedPongClosesWithReason ==
    \A c \in ClientIDs :
        cl[c].readErr = "i/o timeout" =>
            /\ Expired(cl[c])
            /\ readPump[c] = "done" =>
                  /\ cl[c].closing /\ ~ ShardHasClient(c)
                  /\ disconnects[c] = << "heartbeat_timeout" >>

\* session c is open and not authenticated, and more than auth_timeout has
\* passed since NewClient (no frame is read in SpecConnect, so the time since
\* LastActivity is the age of the session)
AuthOverdue(c) ==
    /\ cfg.Auth.RequireAuthOnConnect
    /\ cl[c].made /\ ~ cl[c].closing /\ ~ cl[c].authenticated
    /\ cl[c].idle * TickSeconds > cfg.Auth.AuthTimeout

\* C23, as stated: with auth-on-connect required, a session that is open and
\* unauthenticated past the auth deadline is closed: it does not stay open.
AuthDeadlineCloses ==
    \A c \in ClientIDs : AuthOverdue(c) ~> cl[c].closing

\* C24, as stated: when AuthenticateClient returns the per-user limit's
\* rejection, the session is closed with reason user_limit, is not marked
\* authenticated, and is in no secondary map.
UserLimitCloses ==
    \A p \in Procs :
        (call[p].op = "auth" /\ call[p].pc = "rejected") =>
            /\ cl[call[p].id].closing
            /\ disconnects[call[p].id] = << "user_limit" >>
            /\ ~ cl[call[p].id].authenticated
            /\ ~ InSecondary(call[p].id)

\* the envelope of the last Publish call is with the subscribers, or was
Handed ==
    /\ pub.node \in Nodes
    /\ \E i \in 1 .. Len(node[pub.node].sent) : node[pub.node].sent[i].msg = pub.msg

\* C25, as stated: a Publish call that has returned reported an error for
\* every message the broker did not accept, and reported an error, dropping
\* the message, only after the first send and 3 retries of it had failed.
PublishRetriesThenReports ==
    pub.pc = "done" =>
        /\ ~ pub.accepted => pub.ret # "nil"
        /\ pub.ret # "nil" => pub.attempts = 1 + 3

\* what holds of it: Publish sends the message once; it returns nil exactly
\* for a message the broker accepted, and a message the broker did not accept
\* went to no subscriber
PublishReportsFailure ==
    /\ pub.attempts <= 1
    /\ pub.pc = "done" =>
          /\ (pub.ret = "nil") = pub.accepted
          /\ pub.accepted = Handed

\* the broker failed the one send, and Publish returned the error with the
\* message dropped
PublishGaveUp ==
    pub.pc = "done" /\ pub.attempts = 1 /\ ~ pub.accepted /\ pub.ret # "nil" /\ ~ Handed

\* the last envelope received is one processMessage hands to a handler
Dispatchable ==
    /\ lastEnv.handled
    /\ lastEnv.env.NodeID # nodeID
    /\ lastEnv.env.parses /\ lastEnv.env.innerParses

\* C26: the listener never ends because a handler returned an error, and
\* after such an error an envelope from another node whose type has a
\* handler is still handed to that handler.
ListenerSurvivesHandlerError ==
    /\ [](listener.pc \in {"listen", "handler"})
    /\ [][(listener.failed /\ received' = received + 1 /\ Dispatchable')
            => listener'.pc = "handler"]_vars

\* C26 happens: a handler has returned an error and the listener is in the
\* handler of a later envelope
DispatchedAfterError ==
    listener.failed /\ listener.pc = "handler" /\ Dispatchable

\* C27: a listener whose handler has run past its deadline gets back to its
\* select, where it receives the next message.
TimedOutHandlerReleasesListener ==
    (listener.pc = "handler" /\ listener.expired) ~> (listener.pc = "listen")

\* the payload of the error frame the spec names for an oversized frame
TooLargeFrame == "MESSAGE_TOO_LARGE"

\* C28: a frame of at most max_message_size bytes is read and goes on to the
\* rate limiter and the handler; a frame of max_message_size + 1 bytes is not
\* read, the session is answered with a MESSAGE_TOO_LARGE frame and goes on.
SizeLimitEnforced ==
    [][\A c \in ClientIDs :
         (inbound'.seq = inbound.seq + 1 /\ inbound'.id = c) =>
            IF inbound'.size <= inbound.max
            THEN /\ Len(arrived'[c]) = Len(arrived[c]) + 1
                 /\ readPump'[c] \in {"handle", "refuse"}
            ELSE /\ arrived'[c] = arrived[c]
                 /\ cl'[c].Send = Append(cl[c].Send, TooLargeFrame)]_vars

RECURSIVE Ones(_)
\* the number of bits set in a
Ones(a) == IF a = 0 THEN 0 ELSE (a % 2) + Ones(a \div 2)

\* the uint32 a is a power of two
IsPowerOfTwo(a) == Ones(a.hi) + Ones(a.lo) = 1

\* the uint32 a is less than the int n
Below(a, n) ==
    \/ n.top > 0
    \/ a.hi < n.hi
    \/ a.hi = n.hi /\ a.lo < n.lo

\* C29: the manager built from an accepted shard_count n has a shard count
\* that is the smallest power of two >= n and a mask of shard count - 1, and
\* every shard index it computes is below the shard count.
ShardCountIsNextPowerOfTwo ==
    /\ mgr.pc \in {"made", "looked"} =>
          /\ IsPowerOfTwo(mgr.shardCount)
          /\ ~ Below(mgr.shardCount, mgr.n)
          /\ Below(Shr32(mgr.shardCount, 1), mgr.n)
          /\ Inc32(mgr.shardMask) = mgr.shardCount
    /\ mgr.pc = "looked" =>
          Below(mgr.shard, [top |-> 0, hi |-> mgr.shardCount.hi, lo |-> mgr.shardCount.lo])

\* the same for the shard counts up to 2^31
ShardCountUpTo31 ==
    (mgr.n.top = 0 /\ (mgr.n.hi < 32768 \/ (mgr.n.hi = 32768 /\ mgr.n.lo = 0)))
       => ShardCountIsNextPowerOfTwo

\* caller p is in an AddConnection that returned the error err
RejectedBy(p, err) ==
    call[p].op = "add" /\ call[p].pc = "rejected" /\ call[p].err = err

\* C30: the step in which AddConnection refuses a caller, for the global
\* ceiling or for the IP limiter, and the step in which that caller returns,
\* leave the global counter, the shards' maps, the pumps and the on-connect
\* hook's calls as they were; the counter goes up only in the counting step
\* of an admitted call.
RejectedAddChangesNothing ==
    [][/\ \A p \in Procs :
            (\/ call[p].op = "idle" /\ (RejectedBy(p, "global")' \/ RejectedBy(p, "ip")')
             \/ (RejectedBy(p, "global") \/ RejectedBy(p, "ip")) /\ call'[p] = Idle)
            => UNCHANGED << globalConns, clients, userClients, readPump, writePump,
                            connects >>
       /\ globalConns' > globalConns =>
            \E p \in Procs : call[p].op = "add" /\ call[p].pc = "count"
                               /\ call'[p].pc = "hook"]_vars

\* C30 happens: one caller has been refused for the global ceiling and
\* another for the IP limiter
BothRefusals ==
    \E p, q \in Procs : RejectedBy(p, "global") /\ RejectedBy(q, "ip")

\* C31, as stated: when SendToUser(u, m) has returned, the count it returned
\* is the number of sessions m was enqueued on, and m was enqueued on every
\* session of u that could take a message when the call began and can still
\* take one.
SendReachesEverySession ==
    send.pc = "done" =>
        /\ send.sent = Cardinality(BagToSet(send.got))
        /\ \A c \in send.at \cap Deliverable(send.user) : BagIn(c, send.got)

\* the step adds client c to its shard
AddStep(c) ==
    \E p \in Procs : /\ call[p].op = "add" /\ call[p].pc = "shard" /\ call[p].id = c
                      /\ call'[p].pc = "count"

\* the step removes client c from its shard: RemoveClient by a caller or by
\* the read pump of c, or the sweep
RemoveStep(c) ==
    \/ \E p \in Procs : /\ call[p].op = "idle"
                         /\ call'[p].op = "remove" /\ call'[p].id = c
    \/ readPump[c] = "run" /\ readPump'[c] = "count"
    \/ c \in sweep'.pending /\ c \notin sweep.pending

\* C32: every registered client is in the shard fnv1a(id) & mask, which is
\* its ShardID; a client comes to be found by GetClient in the step that adds
\* it and ceases to be found in the step that removes it (RemoveClient or the
\* sweep), and in no other step; GetClient returns the client exactly when it
\* is found; RemoveClient on an id that is not registered gets nothing from
\* the shard and leaves the maps and the global counter as they were.
RegistryRoundTrip ==
    /\ [](\A s \in Shards : \A c \in clients[s] :
             s = getShardID(c) /\ s = cl[c].ShardID)
    /\ [][/\ \A c \in ClientIDs :
              /\ (~ ShardHasClient(c) /\ ShardHasClient(c)') <=> AddStep(c)
              /\ (ShardHasClient(c) /\ ~ ShardHasClient(c)') <=> RemoveStep(c)
          /\ lookup'.n = lookup.n + 1 =>
                /\ lookup'.ret = (IF ShardHasClient(lookup'.id) THEN lookup'.id ELSE NoClient)
                /\ (lookup'.op = "remove" /\ ~ ShardHasClient(lookup'.id)) =>
                       UNCHANGED << clients, userClients, globalConns, call >>]_vars

\* C32 happens: RemoveClient was called on a session that had been added and
\* removed before, and got nothing
RemovedTwice ==
    /\ lookup.op = "remove" /\ lookup.ret = NoClient
    /\ lookup.id # NoClient /\ cl[lookup.id].made

\* the step is a call of CleanupInactive, on the shard sweep'.cur
CleanupStep == sweep.pending = {} /\ sweep'.next # sweep.next

\* C33, as stated: CleanupInactive(timeout) on a shard returns exactly the
\* shard's clients whose inactivity exceeds the timeout, removes exactly those
\* from the primary map, and leaves the primary and the secondary entries of
\* every other client as they were.
CleanupRemovesOnlyInactive ==
    [][CleanupStep =>
         LET s == sweep'.cur
             gone == { c \in clients[s] : cl[c].idle * TickSeconds > CleanupTimeout }
         IN  /\ sweep'.pending = gone
             /\ clients'[s] = clients[s] \ gone
             /\ \A t \in Shards \ {s} : clients'[t] = clients[t]
             /\ \A t \in Shards, u \in Users, d \in Devices :
                   userClients[t][u][d] \notin gone \cup {NoClient}
                      => userClients'[t][u][d] = userClients[t][u][d]]_vars

\* C34: close(c.Send) runs at most once per session, exactly once when the
\* session is closing, and nothing is sent on the channel once it is closed.
SendClosedOnce ==
    /\ [](\A c \in ClientIDs :
             /\ cl[c].closes <= 1
             /\ cl[c].sendClosed <=> cl[c].closes = 1
             /\ cl[c].closing => cl[c].sendClosed)
    /\ [][\A c \in ClientIDs :
             cl[c].sendClosed => Len(cl'[c].Send) <= Len(cl[c].Send)]_vars

\* C34 happens: the session was closed, both pumps have run their cleanup
\* and a WriteMessage after the close was refused
ClosedUnderRace ==
    /\ cl[QueueClient].closes = 1
    /\ readPump[QueueClient] = "done" /\ writePump[QueueClient].pc = "done"
    /\ written.id = QueueClient /\ written.ret = ErrClientClosed

\* C35, as stated: the sweep removes no session whose read pump is running
\* on an open socket and whose peer has answered every ping (its read
\* deadline has never aged), though the peer sends no data frame.
PongKeepsSessionRegistered ==
    [][\A c \in ClientIDs :
         (Reading(c) /\ cl[c].deadline = 0 /\ ShardHasClient(c))
            => ~ (c \in sweep'.pending /\ c \notin sweep.pending)]_vars

\* C36, as stated: a session for which the on-message or the on-disconnect
\* hook has been invoked has had its on-connect hook invoked before.
ConnectHookFirst ==
    \A c \in ClientIDs :
        (disconnects[c] # <<>> \/ handled[c] # <<>>) => connects[c] >= 1

\* C37, as stated: a SendToUser call that has begun returns, and no read
\* lock of a shard is held while its clients are written to.
BroadcastAlwaysReturns ==
    /\ (send.pc \notin {"idle", "done"}) ~> (send.pc = "done")
    /\ [](send.pc = "write" => mu[send.shard].readers = 0)

\* C38, as stated: once Shutdown has begun the listener starts no handler
\* and never processes the value it receives from the closed channel of the
\* subscription.
BusShutdownClean ==
    /\ stop.late = 0
    /\ listener.pc # "fault"

\* C38, one half: the listener starts no handler once r.ctx is cancelled
NoHandlerAfterShutdown == stop.late = 0

\* C38, other half: the listener does not fault on the closed channel
ListenerNeverFaults == listener.pc # "fault"

\* the sequence s begins with the sequence t
BeginsWith(s, t) == Len(t) <= Len(s) /\ SubSeq(s, 1, Len(t)) = t

\* C39, as stated: however many Shutdown calls are made, one after the other
\* or at the same time, shutdownChan is closed once, by the first of them; the
\* five steps run at most once each and in the order HTTP listener,
\* connection manager, router, bus adapter, metrics endpoint; and a call has
\* returned only when all five have run.
ShutdownRunsOnce ==
    /\ srv.closes = (IF srv.n = 0 THEN 0 ELSE 1)
    /\ BeginsWith(ShutdownSequence, srv.log)
    /\ \A p \in Procs : srv.calls[p] = "returned" => srv.log = ShutdownSequence
    /\ Cardinality({ p \in Procs : srv.calls[p] = "runs" }) <= 1

\* what holds of it: shutdownChan is closed once, one call at most runs the
\* function, and the steps that run are the five in their order or, when
\* s.httpServer was nil, the last four in their order
ShutdownOnceOnly ==
    /\ srv.closes = (IF srv.n = 0 THEN 0 ELSE 1)
    /\ \/ BeginsWith(ShutdownSequence, srv.log)
       \/ BeginsWith(Tail(ShutdownSequence), srv.log)
    /\ \A p \in Procs :
          srv.calls[p] = "returned" =>
              srv.log \in {ShutdownSequence, Tail(ShutdownSequence)}
    /\ Cardinality({ p \in Procs : srv.calls[p] = "runs" }) <= 1

\* every Shutdown call has returned, the HTTP step was passed over, and the
\* listener Start opened afterwards is open
ListenerLeftOpen ==
    /\ srv.n = MaxStops
    /\ \A p \in Procs : srv.calls[p] \in {"idle", "returned"}
    /\ srv.log = Tail(ShutdownSequence)
    /\ srv.start = "serving"

\* every Shutdown call has returned after a run of all five steps
ShutdownCalledAgain ==
    /\ srv.n = MaxStops
    /\ \A p \in Procs : srv.calls[p] \in {"idle", "returned"}
    /\ srv.log = ShutdownSequence

====
